---- MODULE Spec2Model ----
(***************************************************************************)
(* Model of the trigger widget of pyjoulescope_ui                          *)
(* (src/joulescope_ui/widgets/trigger/trigger_widget.py, TriggerWidget).   *)
(*                                                                         *)
(* The widget keeps its status in the 'status' property of the status      *)
(* button, its run mode in the checked state of the run-mode button and    *)
(* its sequence configuration in four sub-widgets; the 'config' setting    *)
(* mirrors what _config_get() returned when it was last stored.            *)
(*                                                                         *)
(* The sub-widgets' configurations are abstracted: a condition widget      *)
(* holds one of NumCond distinct conditions, an actions widget holds the   *)
(* state of its first checkbox (sample_record, output).                    *)
(*                                                                         *)
(* trigger_widget.py holds no code that evaluates a condition or executes  *)
(* an action.  StartConditionMatch, StopConditionMatch, ExecuteStart and   *)
(* ExecuteStop are modelled from spec.md 4.3 and 4.5 (and the status       *)
(* tooltip of the widget); everything else is modelled from the source.    *)
(***************************************************************************)
EXTENDS Integers, Sequences, FiniteSets, TLC

\* Number of distinct condition configurations a ConditionWidget can hold.
NumCond == 2

VARIABLES
    status,            \* _status_button.property('status')
    run_mode_checked,  \* _run_mode_button.isChecked()
    connected,         \* self._connected
    widgets,           \* the configs of the four sub-widgets
    config,            \* self.config, the 'config' setting: <<>> is None, <<c>> is c
    bus_status,        \* retained value of the 'status' setting on the settings bus
    bus_mode,          \* retained value of the 'mode' setting on the settings bus
    session_open,      \* a start action has been executed and no stop action since
    op,                \* the kind of handler that ran last
    err,               \* the exception the last handler raised, "none" if none
    arg,               \* the argument of the operation that ran last
    si,                \* a SiValue of widgets/waveform/trigger.py
    thr,               \* the comboboxes of the ThresholdSubcondition that owns si
    wf,                \* the Trigger widget of widgets/waveform/trigger.py
    edge,              \* the edge-condition evaluator of spec.md 4.2
    cw,                \* a ConditionWidget of widgets/trigger/trigger_widget.py
    js,                \* a Js220 of devices/jsdrv/js220.py: its threads and queue
    drv,               \* a Js220 whose commands and statistics run one at a time
    tp                 \* the 'trace_priority' setting of a waveform widget

\* The state of the TriggerWidget.
triggerVars == <<status, run_mode_checked, connected, widgets, config,
                 bus_status, bus_mode, session_open>>

vars == <<status, run_mode_checked, connected, widgets, config,
          bus_status, bus_mode, session_open, op, err,
          arg, si, thr, wf, edge, cw, js, drv, tp>>

\* A part of the program that a specification does not exercise.
Idle == "idle"

\* SETTINGS['status']['options']
STATUS_OPTIONS == {"inactive", "searching", "active"}

CondValues == 1..NumCond
ActValues == BOOLEAN

\* The documents _config_get() can return.
Configs ==
    [run_mode: BOOLEAN,
     start_condition: CondValues, start_actions: ActValues,
     stop_condition: CondValues, stop_actions: ActValues]

\* Python's None for the 'config' setting.
None == <<>>
Some(c) == <<c>>
ConfigValues == {None} \cup {Some(c) : c \in Configs}

RunModeSwapped == IF run_mode_checked THEN "single" ELSE "continuous"

\* The run mode named by the run-mode button: SETTINGS['mode'] defaults to
\* 'single' and the checkable button starts unchecked.
RunMode == IF run_mode_checked THEN "continuous" ELSE "single"

\* TriggerWidget._config_get
ConfigGet ==
    [run_mode |-> run_mode_checked,
     start_condition |-> widgets.start_condition,
     start_actions |-> widgets.start_actions,
     stop_condition |-> widgets.stop_condition,
     stop_actions |-> widgets.stop_actions]

\* The sub-widget part of a configuration document.
WidgetsOf(c) ==
    [start_condition |-> c.start_condition,
     start_actions |-> c.start_actions,
     stop_condition |-> c.stop_condition,
     stop_actions |-> c.stop_actions]

\* TriggerWidget._config_set, given the value of self._connected to use.
\* The Qt signals the setters emit on the way (toggled, config_changed) run
\* _on_config_update / _on_config_changed re-entrantly; they store what
\* _config_get() returns, and the model keeps the end result only.
ConfigSet(value, isConnected) ==
    IF isConnected /\ value # None
    THEN /\ run_mode_checked' = value[1].run_mode
         /\ widgets' = WidgetsOf(value[1])
    ELSE UNCHANGED <<run_mode_checked, widgets>>

\* TriggerWidget.__init__ and the SETTINGS defaults.
Init ==
    /\ status = "inactive"
    /\ run_mode_checked = FALSE
    /\ connected = FALSE
    /\ widgets = [start_condition |-> 1, start_actions |-> FALSE,
                  stop_condition |-> 1, stop_actions |-> FALSE]
    /\ config = None
    /\ bus_status = "inactive"
    /\ bus_mode = "single"
    /\ session_open = FALSE
    /\ op = "init"
    /\ err = "none"
    /\ arg = Idle /\ si = Idle /\ thr = Idle /\ wf = Idle /\ edge = Idle /\ cw = Idle
    /\ js = Idle /\ drv = Idle /\ tp = Idle

\* TriggerWidget._status_update: only the button property is written.
StatusUpdate(s) == status' = s

ActivateToActive == StatusUpdate("active")

ActivateToArmed == StatusUpdate("armed")

\* TriggerWidget._activate
Activate == StatusUpdate("searching")

DeactivateNoStop ==
    /\ StatusUpdate("inactive")
    /\ err' = "none"
    /\ UNCHANGED session_open

\* self._deactivate(): TriggerWidget defines no such method, the call raises
\* AttributeError and the slot ends there.
Deactivate ==
    /\ err' = "AttributeError"
    /\ UNCHANGED <<status, session_open>>

\* TriggerWidget._on_status_button_pressed
OnStatusButtonPressed ==
    /\ op' = "status_button"
    /\ IF status = "inactive"
       THEN Activate /\ err' = "none" /\ UNCHANGED session_open
       ELSE IF status \in {"searching", "active"}
       THEN Deactivate
       ELSE err' = "none" /\ UNCHANGED <<status, session_open>>
    /\ UNCHANGED <<run_mode_checked, connected, widgets, config, bus_status, bus_mode>>

\* _run_mode_button.toggled -> TriggerWidget._on_config_update
OnConfigUpdate ==
    /\ op' = "config_update"
    /\ err' = "none"
    /\ run_mode_checked' = ~run_mode_checked
    /\ UNCHANGED widgets
    /\ config' = Some(ConfigGet')
    /\ UNCHANGED <<status, connected, bus_status, bus_mode, session_open>>

\* An edit of one sub-widget: config_changed -> TriggerWidget._on_config_changed
OnConfigChanged ==
    /\ op' = "config_update"
    /\ err' = "none"
    /\ \E name \in DOMAIN widgets :
          \E v \in (IF name \in {"start_condition", "stop_condition"}
                    THEN CondValues ELSE ActValues) \ {widgets[name]} :
             widgets' = [widgets EXCEPT ![name] = v]
    /\ UNCHANGED run_mode_checked
    /\ config' = Some(ConfigGet')
    /\ UNCHANGED <<status, connected, bus_status, bus_mode, session_open>>

\* TriggerWidget.on_setting_config: the settings bus delivers a new value of
\* the 'config' setting and retains it.
OnSettingConfig ==
    /\ op' = "config_update"
    /\ err' = "none"
    /\ \E value \in ConfigValues :
          /\ IF value # config
             THEN ConfigSet(value, connected)
             ELSE UNCHANGED <<run_mode_checked, widgets>>
          /\ config' = value
    /\ UNCHANGED <<status, connected, bus_status, bus_mode, session_open>>

\* TriggerWidget._connect, from _on_source_changed / _on_resolved_changed.
Connect ==
    /\ op' = "connect"
    /\ err' = "none"
    /\ \E resolved \in BOOLEAN :
          IF ~resolved
          THEN /\ connected' = FALSE
               /\ UNCHANGED <<run_mode_checked, widgets>>
          ELSE /\ connected' = TRUE
               /\ IF ~connected
                  THEN ConfigSet(config, TRUE)
                  ELSE UNCHANGED <<run_mode_checked, widgets>>
    /\ UNCHANGED <<status, config, bus_status, bus_mode, session_open>>

\* spec.md 4.3: execute_start opens the recording / buffering session.
ExecuteStart == session_open' = TRUE

\* spec.md 4.3: execute_stop closes it.
ExecuteStop == session_open' = FALSE

\* spec.md 4.5: searching --start_condition_match--> active
StartConditionMatch ==
    /\ status = "searching"
    /\ op' = "start_match"
    /\ err' = "none"
    /\ ExecuteStart
    /\ StatusUpdate("active")
    /\ UNCHANGED <<run_mode_checked, connected, widgets, config, bus_status, bus_mode>>

\* spec.md 4.5: active --stop_condition_match--> inactive | searching
StopConditionMatch ==
    /\ status = "active"
    /\ op' = "stop_match"
    /\ err' = "none"
    /\ ExecuteStop
    /\ StatusUpdate(IF RunMode = "single" THEN "inactive" ELSE "searching")
    /\ UNCHANGED <<run_mode_checked, connected, widgets, config, bus_status, bus_mode>>

\* What the handlers of the TriggerWidget never touch.
notTrigger == <<arg, si, thr, wf, edge, cw, js, drv, tp>>

Next ==
    \/ OnStatusButtonPressed /\ UNCHANGED notTrigger
    \/ OnConfigUpdate /\ UNCHANGED notTrigger
    \/ OnConfigChanged /\ UNCHANGED notTrigger
    \/ OnSettingConfig /\ UNCHANGED notTrigger
    \/ Connect /\ UNCHANGED notTrigger
    \/ StartConditionMatch /\ UNCHANGED notTrigger
    \/ StopConditionMatch /\ UNCHANGED notTrigger

Spec == Init /\ [][Next]_vars

(***************************************************************************)
(* Claims about the trigger status machine                                 *)
(***************************************************************************)

\* A step of _on_status_button_pressed taken from status s.
PressFrom(s) == status = s /\ op' = "status_button"

\* C1: a halt request (status button pressed) while the status is
\* 'searching' returns the status to 'inactive' and executes no start
\* action on the way.
C1_HaltFromSearching ==
    [][PressFrom("searching") =>
          (status' = "inactive" /\ session_open' = session_open)]_vars

\* C2: a halt request (status button pressed) while the status is 'active'
\* returns the status to 'inactive' and has executed the stop actions by
\* then: no session is left open.
C2_HaltFromActive ==
    [][PressFrom("active") =>
          (status' = "inactive" /\ session_open' = FALSE)]_vars

C4_ArmOnlyFromInactive ==
    [][/\ PressFrom("inactive") => status' = "searching"
       /\ (op' = "status_button" /\ status' # status) => status = "inactive"]_vars

C4_Witness ==
    op = "status_button" /\ status = "searching" /\ err = "none"

C7_StatusInOptions ==
    /\ status \in STATUS_OPTIONS
    /\ op = "init" => status = "inactive"

C7_Witness ==
    /\ status = "searching"
    /\ op = "config_update"
    /\ config # None

\* C9: while the status is 'searching' or 'active', a configuration the
\* run can use stays as it was at arm time: the sub-widgets' configuration
\* or the stored 'config' setting is left unchanged by every step that
\* does not pass through 'inactive'.
C9_ConfigFrozenWhileArmed ==
    [][(status # "inactive" /\ status' # "inactive") =>
          (ConfigGet' = ConfigGet \/ config' = config)]_vars

\* C10: the retained 'status' and 'mode' settings on the bus equal the
\* widget's current status and run mode.
C10_BusMirrorsState ==
    /\ bus_status = status
    /\ bus_mode = RunMode

(***************************************************************************)
(* Numbers.  The widgets compute with Python floats; the model computes    *)
(* with exact decimals m * 10^e (m >= 0), so that a difference it finds    *)
(* is a difference of the values and not of their last binary digit.       *)
(***************************************************************************)

Dec(m, e) == [m |-> m, e |-> e]

Pow10(n) ==
    CASE n = 0 -> 1 [] n = 1 -> 10 [] n = 2 -> 100 [] n = 3 -> 1000
      [] n = 4 -> 10000 [] n = 5 -> 100000 [] n = 6 -> 1000000
      [] n = 7 -> 10000000 [] n = 8 -> 100000000 [] n = 9 -> 1000000000

\* The number of decimal digits of m.
NumDigits(m) ==
    IF m < 10 THEN 1 ELSE IF m < 100 THEN 2 ELSE IF m < 1000 THEN 3
    ELSE IF m < 10000 THEN 4 ELSE IF m < 100000 THEN 5
    ELSE IF m < 1000000 THEN 6 ELSE IF m < 10000000 THEN 7
    ELSE IF m < 100000000 THEN 8 ELSE IF m < 1000000000 THEN 9 ELSE 10

RECURSIVE Norm(_)
\* The decimal without trailing zeros in its mantissa; zero is 0 * 10^0.
Norm(d) ==
    IF d.m = 0 THEN Dec(0, 0)
    ELSE IF d.m % 10 = 0 THEN Norm(Dec(d.m \div 10, d.e + 1))
    ELSE d

\* a = b
DecEq(a, b) == Norm(a) = Norm(b)

\* F at v and at <<v, w>>: an intermediate result, computed once, under
\* the name the body of F gives it.
Bind(v, F(_)) == F(v)
Bind2(v, w, F(_, _)) == F(v, w)

\* a >= b
DecGe(a, b) ==
    Bind2(Norm(a), Norm(b), LAMBDA x, y :
        LET mx == NumDigits(x.m) + x.e
            my == NumDigits(y.m) + y.e
            e0 == IF x.e < y.e THEN x.e ELSE y.e
        IN  IF y.m = 0 THEN TRUE
            ELSE IF x.m = 0 THEN FALSE
            ELSE IF mx # my THEN mx > my
            ELSE x.m * Pow10(x.e - e0) >= y.m * Pow10(y.e - e0))

\* a * b
DecMul(a, b) == Norm(Dec(a.m * b.m, a.e + b.e))

RECURSIVE LongDiv(_, _, _, _)
\* Long division, one decimal digit at a time, until p digits are made or
\* nothing remains: <<q, r, k>> with q * ym + r = (q0 * ym + r0) * 10^(p - k)
\* and 0 <= r < ym, and r = 0 when k > 0.
LongDiv(q0, r0, ym, p) ==
    IF p = 0 \/ r0 = 0 THEN <<q0, r0, p>>
    ELSE LongDiv(q0 * 10 + (r0 * 10) \div ym, (r0 * 10) % ym, ym, p - 1)

\* a / b rounded to `digits` decimals (half up), as a decimal; b > 0.
DecDivRound(a, b, digits) ==
    Bind2(Norm(a), Norm(b), LAMBDA x, y :
        LET p == x.e - y.e + digits
            n == IF NumDigits(x.m) + p < NumDigits(y.m) - 1 THEN 0
                 ELSE (x.m + (y.m * Pow10(-p)) \div 2) \div (y.m * Pow10(-p))
        IN  IF x.m = 0 THEN Dec(0, 0)
            ELSE IF p >= 0
            THEN Bind(LongDiv(x.m \div y.m, x.m % y.m, y.m, p), LAMBDA d :
                    Norm(Dec(d[1] + (IF 2 * d[2] >= y.m THEN 1 ELSE 0), d[3] - digits)))
            ELSE Norm(Dec(n, -digits)))

\* a rounded to `digits` decimals (half up).
DecRound(a, digits) == DecDivRound(a, Dec(1, 0), digits)

\* QDoubleSpinBox.setValue: the value is rounded to the decimals of the
\* spin box and kept inside its range.
SpinValue(v, lo, hi, digits) ==
    Bind(DecRound(v, digits),
         LAMBDA r : IF ~DecGe(r, lo) THEN lo ELSE IF ~DecGe(hi, r) THEN hi ELSE r)

(***************************************************************************)
(* widgets/waveform/trigger.py: the signal catalog and SiValue              *)
(***************************************************************************)

\* An entry of a 'units' list: (name, scale), the scale 'period' being
\* the string that stands for 1 / sampling_frequency.
Unit(name, m, e) == [name |-> name, period |-> FALSE, scale |-> Dec(m, e)]
PeriodUnit(name) == [name |-> name, period |-> TRUE, scale |-> Dec(0, 0)]

\* The units lists of SIGNALS; the Wh and Ah scales are 3600 times the
\* J and C scales.
TIME_UNITS ==
    << PeriodUnit("samples"), Unit("microseconds", 1, -6),
       Unit("milliseconds", 1, -3), Unit("seconds", 1, 0),
       Unit("minutes", 6, 1), Unit("hours", 36, 2), Unit("days", 864, 2) >>
CURRENT_UNITS ==
    << Unit("nA", 1, -9), Unit("uA", 1, -6), Unit("mA", 1, -3), Unit("A", 1, 0) >>
VOLTAGE_UNITS ==
    << Unit("mV", 1, -3), Unit("V", 1, 0) >>
POWER_UNITS ==
    << Unit("nW", 1, -9), Unit("uW", 1, -6), Unit("mW", 1, -3), Unit("W", 1, 0) >>
ENERGY_UNITS ==
    [J  |-> << Unit("nJ", 1, -9), Unit("uJ", 1, -6), Unit("mJ", 1, -3), Unit("J", 1, 0) >>,
     Wh |-> << Unit("nWh", 36, -7), Unit("uWh", 36, -4), Unit("mWh", 36, -1),
               Unit("Wh", 36, 2) >>]
CHARGE_UNITS ==
    [J  |-> << Unit("nC", 1, -9), Unit("uC", 1, -6), Unit("mC", 1, -3), Unit("C", 1, 0) >>,
     Wh |-> << Unit("pAh", 36, -10), Unit("nAh", 36, -7), Unit("uAh", 36, -4),
               Unit("mAh", 36, -1), Unit("Ah", 36, 2) >>]

\* SIGNALS.  units_kind: "list", "dict" (one list per unit family) or
\* "none"; default_index -1 stands for an entry without 'default_index';
\* without 'range' and 'float_digits' signal_set uses [0, 1e9, 1] and 2.
Signal(kind, deflt, dindex, hi, digits) ==
    [units_kind |-> kind, default_value |-> deflt, default_index |-> dindex,
     range_max |-> hi, float_digits |-> digits]

SIGNALS ==
    [time          |-> Signal("list", Dec(5, -1), -1, Dec(1, 9), 2),
     current       |-> Signal("list", Dec(1, 0), -1, Dec(1, 9), 2),
     voltage       |-> Signal("list", Dec(1, 0), -1, Dec(1, 9), 2),
     power         |-> Signal("list", Dec(1, 0), -1, Dec(1, 9), 2),
     energy        |-> Signal("dict", Dec(1, 0), 3, Dec(1, 9), 2),
     charge        |-> Signal("dict", Dec(1, 0), 3, Dec(1, 9), 2),
     current_range |-> Signal("none", Dec(1, 0), -1, Dec(7, 0), 0),
     current_lsb   |-> Signal("none", Dec(1, 0), -1, Dec(1, 0), 0),
     voltage_lsb   |-> Signal("none", Dec(1, 0), -1, Dec(1, 0), 0)]

SignalNames == DOMAIN SIGNALS

EDGE_SIGNALS ==
    << "current", "voltage", "power", "current_range", "current_lsb", "voltage_lsb" >>
WINDOW_SIGNALS == << "energy", "charge" >>

\* The signals that take whole numbers from a range: the digital ones.
IsDigitalSignal(name) == name \in SignalNames /\ SIGNALS[name].units_kind = "none"

\* The sampling frequency the module's own main program passes.
SamplingFrequency == 2000000

\* 1 / sampling_frequency
PeriodScale == Dec(10000000 \div SamplingFrequency, -7)

\* SiValue._units_enum for a signal name and the 'units' argument of the
\* constructor ("J": {'energy': 'J', 'charge': 'C'}, "Wh": {'energy': 'Wh',
\* 'charge': 'Ah'}, "none": None).  <<>> stands for None, "TypeError" for
\* the subscript of None.
UnitsEnum(name, fam) ==
    CASE name = "time" -> TIME_UNITS
      [] name = "current" -> CURRENT_UNITS
      [] name = "voltage" -> VOLTAGE_UNITS
      [] name = "power" -> POWER_UNITS
      [] name = "energy" -> IF fam = "none" THEN "TypeError" ELSE ENERGY_UNITS[fam]
      [] name = "charge" -> IF fam = "none" THEN "TypeError" ELSE CHARGE_UNITS[fam]
      [] OTHER -> <<>>

\* Has the signal a units table the constructor's 'units' can resolve?
UnitsEnumFails(name, fam) == name \in {"energy", "charge"} /\ fam = "none"

\* Python's sequence[index] for index >= -1: the index the subscript reads
\* (1-based), 0 when it raises IndexError.
PyIndex(seq, index) ==
    IF index = -1 THEN Len(seq)
    ELSE IF index >= 0 /\ index < Len(seq) THEN index + 1
    ELSE 0

\* A SiValue: signal is self._signal['name'], fam the 'units' argument, fs
\* the sampling frequency (0 for None), items / idx the item count and the
\* current index of the units combo box, prev self._units_previous_index
\* (-2 for None), spin / hi / digits the value, the maximum and the decimals
\* of the spin box (its minimum is always 0), blocked the blockSignals state
\* of the units combo box, err the exception the last call raised.
SiOk(sv) == [sv EXCEPT !.err = "none"]
SiFail(sv, e) == [sv EXCEPT !.err = e]

\* SiValue._units_scale(index): [err, k]
UnitsScale(sv, index) ==
    IF UnitsEnumFails(sv.signal, sv.fam) THEN [err |-> "TypeError", k |-> Dec(0, 0)]
    ELSE Bind(UnitsEnum(sv.signal, sv.fam), LAMBDA enum :
             IF enum = <<>> THEN [err |-> "none", k |-> Dec(1, 0)]
             ELSE IF index = -2 THEN [err |-> "TypeError", k |-> Dec(0, 0)]
             ELSE IF PyIndex(enum, index) = 0 THEN [err |-> "IndexError", k |-> Dec(0, 0)]
             ELSE Bind(enum[PyIndex(enum, index)], LAMBDA u :
                      IF ~u.period THEN [err |-> "none", k |-> u.scale]
                      ELSE IF sv.fs = 0 THEN [err |-> "TypeError", k |-> Dec(0, 0)]
                      ELSE [err |-> "none", k |-> PeriodScale]))

\* SiValue._value_from_index(index): [err, val]
ValueFromIndex(sv, index) ==
    Bind(UnitsScale(sv, index), LAMBDA r :
        IF r.err # "none" THEN [err |-> r.err, val |-> Dec(0, 0)]
        ELSE [err |-> "none", val |-> DecMul(r.k, sv.spin)])

\* SiValue.value (getter): [err, val]
ValueGet(sv) == ValueFromIndex(sv, sv.idx)

RECURSIVE UnitsScan(_, _, _)
\* The loop of the value setter, from entry i (1-based) downwards: the entry
\* it stops at, 0 when it runs off the list, -1 when it compares the number
\* with the string 'period' (TypeError).
UnitsScan(enum, i, k) ==
    IF i = 0 THEN 0
    ELSE IF enum[i].period THEN -1
    ELSE IF DecGe(k, enum[i].scale) THEN i
    ELSE UnitsScan(enum, i - 1, k)

\* QComboBox.setCurrentIndex: an index the box does not have leaves it
\* without a current item.
ComboIndex(items, index) == IF index >= 0 /\ index < items THEN index ELSE -1

\* SiValue.value (setter)
ValueSet(sv, k) ==
    IF UnitsEnumFails(sv.signal, sv.fam) THEN SiFail(sv, "TypeError")
    ELSE Bind(UnitsEnum(sv.signal, sv.fam), LAMBDA enum :
         Bind(UnitsScan(enum, Len(enum), k), LAMBDA i :
             LET zero == [sv EXCEPT !.spin = Dec(0, 0), !.blocked = TRUE]
             IN  IF enum = <<>>
                 THEN SiOk([sv EXCEPT !.spin = SpinValue(k, Dec(0, 0), sv.hi, sv.digits)])
                 ELSE IF i = -1 THEN SiFail(zero, "TypeError")
                 ELSE IF i = 0 THEN SiOk([zero EXCEPT !.blocked = sv.blocked])
                 ELSE SiOk([zero EXCEPT
                         !.idx = ComboIndex(sv.items, i - 1),
                         !.prev = i - 1,
                         !.spin = SpinValue(DecDivRound(k, enum[i].scale, sv.digits),
                                            Dec(0, 0), sv.hi, sv.digits),
                         !.blocked = sv.blocked])))

\* SiValue.signal_set
SignalSet(sv, name) ==
    LET cleared == [sv EXCEPT !.blocked = TRUE, !.items = 0, !.idx = -1]
    IN  IF name \notin SignalNames THEN SiFail(cleared, "KeyError")
        ELSE IF UnitsEnumFails(name, sv.fam)
        THEN SiFail([cleared EXCEPT !.signal = name], "TypeError")
        ELSE Bind2(SIGNALS[name], UnitsEnum(name, sv.fam), LAMBDA s, enum :
             LET dflt == IF s.default_index = -1 THEN Len(enum) - 1 ELSE s.default_index
                 filled == IF enum = <<>>
                           THEN [cleared EXCEPT !.signal = name]
                           ELSE [cleared EXCEPT !.signal = name, !.items = Len(enum),
                                                !.idx = ComboIndex(Len(enum), dflt),
                                                !.prev = dflt]
             IN  Bind(ValueSet(filled, s.default_value), LAMBDA valued :
                     IF valued.err # "none" THEN valued
                     ELSE SiOk([valued EXCEPT
                             !.hi = s.range_max,
                             !.digits = s.float_digits,
                             !.spin = SpinValue(valued.spin, Dec(0, 0), s.range_max,
                                                s.float_digits),
                             !.blocked = sv.blocked])))

\* SiValue.__init__
NewSiValue(name, fs, fam) ==
    SignalSet([signal |-> "", fam |-> fam, fs |-> fs, items |-> 0, idx |-> -1,
               prev |-> -2, spin |-> Dec(0, 0), hi |-> Dec(1, 4), digits |-> 2,
               blocked |-> FALSE, err |-> "none"], name)

\* The user picks another entry of the units combo box; unless the signals
\* of the box are blocked this runs SiValue._on_units_change.  An exception
\* in the slot ends the slot and leaves what it had not yet written.
UnitsChange(sv, index) ==
    LET picked == [sv EXCEPT !.idx = index]
    IN  IF sv.blocked THEN SiOk(picked)
        ELSE Bind2(ValueFromIndex(picked, sv.prev), UnitsScale(picked, index),
                   LAMBDA old, new :
            IF old.err # "none" THEN SiFail(picked, old.err)
            ELSE IF new.err # "none" THEN SiFail(picked, new.err)
            ELSE SiOk([picked EXCEPT
                    !.spin = SpinValue(DecDivRound(old.val, new.k, sv.digits),
                                       Dec(0, 0), sv.hi, sv.digits),
                    !.prev = index]))

\* A settings document of a SiValue: has_* tell which keys it holds.
SiDoc(hasSignal, signal, hasValue, value) ==
    [has_signal |-> hasSignal, signal |-> signal, has_value |-> hasValue, value |-> value]

\* SiValue.settings (setter)
SiSettingsSet(sv, x) ==
    IF ~x.has_signal THEN SiFail(sv, "KeyError")
    ELSE Bind(SignalSet(sv, x.signal), LAMBDA a :
             IF a.err # "none" THEN a
             ELSE IF ~x.has_value THEN SiFail(a, "KeyError")
             ELSE ValueSet(a, x.value))

(***************************************************************************)
(* Specification of one SiValue, alone (the duration of a DurationCheckbox *)
(* or WaitCondition) or as the threshold of a ThresholdSubcondition        *)
(***************************************************************************)

\* ThresholdSubcondition._operations; "ge" and "le" stand for the one-
\* character signs of the source.
OPERATIONS == << ">", "<", "ge", "le", "==" >>

\* list.index / QComboBox.findText as a 0-based index, -1 when absent.
FindText(seq, text) ==
    IF \E i \in 1..Len(seq) : seq[i] = text
    THEN (CHOOSE i \in 1..Len(seq) : seq[i] = text) - 1
    ELSE -1

\* QComboBox.currentText: '' without a current item.
CurrentText(seq, index) == IF index >= 0 /\ index < Len(seq) THEN seq[index + 1] ELSE ""

\* The numbers the spin box is given to display.
Displays == { Dec(5, -1), Dec(10015, -1) }

\* The base values handed to a SiValue: zero, and each display number in
\* each unit of the signal that has a number as its scale; whole numbers
\* for a signal without units.
BaseValues(name, fam) ==
    IF UnitsEnumFails(name, fam) \/ name \notin SignalNames THEN { Dec(0, 0), Dec(1, 0) }
    ELSE LET enum == UnitsEnum(name, fam)
         IN  IF enum = <<>> THEN { Dec(0, 0), Dec(1, 0), Dec(3, 0), Dec(9, 0) }
             ELSE { Dec(0, 0) } \cup
                  { DecMul(enum[i].scale, d) :
                      i \in { j \in 1..Len(enum) : ~enum[j].period }, d \in Displays }

\* The unit families a Trigger is constructed with.
Families == { "J", "Wh" }

\* A ThresholdSubcondition: its signal names, the indices of its signal and
\* operation combo boxes; its threshold is the SiValue.  NoThreshold is the
\* SiValue that stands alone.
NoThreshold == [signals |-> <<>>, sig_idx |-> -1, op_idx |-> -1]
NewThreshold(signals) == [signals |-> signals, sig_idx |-> 0, op_idx |-> 0]

\* No TriggerWidget has been constructed.
NoTriggerWidget ==
    /\ status = Idle /\ run_mode_checked = Idle /\ connected = Idle
    /\ widgets = Idle /\ config = Idle /\ bus_status = Idle /\ bus_mode = Idle
    /\ session_open = Idle

otherThanSi == <<status, run_mode_checked, connected, widgets, config, bus_status,
                 bus_mode, session_open, wf, edge, cw, js, drv, tp>>

InitSi ==
    /\ NoTriggerWidget
    /\ wf = Idle /\ edge = Idle /\ cw = Idle /\ js = Idle /\ drv = Idle /\ tp = Idle
    /\ op = "init" /\ err = "none" /\ arg = Idle
    /\ \/ /\ thr = NoThreshold
          /\ \E fs \in {0, SamplingFrequency} : si = NewSiValue("time", fs, "none")
       \/ /\ thr \in { NewThreshold(EDGE_SIGNALS), NewThreshold(WINDOW_SIGNALS) }
          /\ \E fam \in Families : si = NewSiValue("current", 0, fam)
          /\ thr.signals = EDGE_SIGNALS => si.fam = "J"

\* A settings document of a ThresholdSubcondition.
ThrDoc(hasSignal, signal, hasOperation, operation, hasValue, value) ==
    [has_signal |-> hasSignal, signal |-> signal,
     has_operation |-> hasOperation, operation |-> operation,
     has_value |-> hasValue, value |-> value]

\* The documents handed to ThresholdSubcondition.settings: every signal of
\* the subcondition and a name no catalog has, an ordering and the equality
\* operation and one that is no operation, and each key present or absent.
ThrDocs(signals) ==
    { ThrDoc(TRUE, s, TRUE, o, TRUE, v) :
        s \in { signals[i] : i \in 1..Len(signals) } \cup { "bogus" },
        o \in { ">", "==" },
        v \in { Dec(1, 0) } }
    \cup { ThrDoc(FALSE, "", TRUE, "==", TRUE, Dec(1, 0)),
           ThrDoc(TRUE, signals[1], FALSE, "", TRUE, Dec(1, 0)),
           ThrDoc(TRUE, signals[1], TRUE, ">=", TRUE, Dec(1, 0)),
           ThrDoc(TRUE, signals[1], TRUE, ">", FALSE, Dec(0, 0)) }

\* ThresholdSubcondition._on_signal_index_changed, run by the signal combo
\* box when its index changes; the exception of a slot is not propagated.
OnSignalIndexChanged(t, sv, index) ==
    IF index = t.sig_idx THEN sv ELSE SignalSet(sv, CurrentText(t.signals, index))

\* ThresholdSubcondition.settings (setter): [thr, si, err]
ThresholdSettingsSet(t, sv, x) ==
    Bind2(FindText(OPERATIONS, IF x.has_operation THEN x.operation ELSE ">"),
          FindText(t.signals, IF x.has_signal THEN x.signal ELSE "current"),
          LAMBDA op_idx, sig_idx :
        IF op_idx = -1 THEN [thr |-> t, si |-> sv, err |-> "ValueError"]
        ELSE Bind(SiSettingsSet(OnSignalIndexChanged(t, sv, sig_idx),
                                SiDoc(x.has_signal, x.signal, x.has_value, x.value)),
                  LAMBDA sv2 :
                [thr |-> [t EXCEPT !.sig_idx = sig_idx, !.op_idx = op_idx],
                 si |-> sv2, err |-> sv2.err]))

\* The user picks a signal of the subcondition.
ThrSignalPick ==
    /\ thr # NoThreshold
    /\ \E i \in 0..(Len(thr.signals) - 1) :
        /\ i # thr.sig_idx
        /\ thr' = [thr EXCEPT !.sig_idx = i]
        /\ si' = OnSignalIndexChanged(thr, si, i)
        /\ arg' = [signal |-> CurrentText(thr.signals, i)]
    /\ op' = "signal_pick"
    /\ err' = "none"
    /\ UNCHANGED otherThanSi

\* thr.settings = x
ThrSettingsSet ==
    /\ thr # NoThreshold
    /\ \E x \in ThrDocs(thr.signals) :
        \E r \in { ThresholdSettingsSet(thr, si, x) } :
            /\ thr' = r.thr
            /\ si' = r.si
            /\ err' = r.err
            /\ arg' = x
    /\ op' = "thr_settings"
    /\ UNCHANGED otherThanSi

\* si.settings = x, for the SiValue that stands alone (DurationCheckbox and
\* WaitCondition settings).
SiSettings ==
    /\ thr = NoThreshold
    /\ \E x \in { SiDoc(TRUE, "time", TRUE, v) : v \in BaseValues("time", si.fam) }
                \cup { SiDoc(FALSE, "", TRUE, Dec(1, 0)),
                       SiDoc(TRUE, "time", FALSE, Dec(0, 0)),
                       SiDoc(TRUE, "bogus", TRUE, Dec(1, 0)) } :
        /\ si' = SiSettingsSet(si, x)
        /\ arg' = x
    /\ op' = "si_settings"
    /\ err' = si'.err
    /\ UNCHANGED <<otherThanSi, thr>>

\* si.value = k
SiValueSet ==
    /\ \E k \in BaseValues(si.signal, si.fam) :
        /\ si' = ValueSet(si, k)
        /\ arg' = [k |-> k]
    /\ op' = "value_set"
    /\ err' = si'.err
    /\ UNCHANGED <<otherThanSi, thr>>

\* The product of the scale at `index` and the number in the spin box has
\* no more than nine digits: the values this specification follows.
ValueFits(sv, index) ==
    Bind(UnitsScale(sv, index), LAMBDA r :
        r.err # "none" \/ NumDigits(r.k.m) + NumDigits(sv.spin.m) <= 9)

\* si.value is read.
SiValueGet ==
    /\ ValueFits(si, si.idx)
    /\ op' = "value_get"
    /\ \E r \in { ValueGet(si) } :
        /\ err' = r.err
        /\ arg' = [val |-> r.val]
    /\ UNCHANGED <<otherThanSi, thr, si>>

\* The user picks a unit.
SiUnitsPick ==
    /\ si.blocked \/ ValueFits(si, si.prev)
    /\ \E i \in 0..(si.items - 1) :
        /\ i # si.idx
        /\ si' = UnitsChange(si, i)
        /\ arg' = [index |-> i]
    /\ op' = "units_pick"
    /\ err' = si'.err
    /\ UNCHANGED <<otherThanSi, thr>>

NextSi ==
    \/ ThrSignalPick
    \/ ThrSettingsSet
    \/ SiSettings
    \/ SiValueSet
    \/ SiValueGet
    \/ SiUnitsPick

SpecSi == InitSi /\ [][NextSi]_vars

(***************************************************************************)
(* Claims about SiValue and ThresholdSubcondition                          *)
(***************************************************************************)

\* The units table of the SiValue and the scale of its i-th entry (the
\* sample period being 1 / sampling_frequency).
EnumOf(sv) == UnitsEnum(sv.signal, sv.fam)
ScaleOf(sv, i) == IF EnumOf(sv)[i].period THEN PeriodScale ELSE EnumOf(sv)[i].scale

\* The SiValue has a units table in which every entry has a scale.
HasScales(sv) ==
    /\ sv.signal \in SignalNames
    /\ ~UnitsEnumFails(sv.signal, sv.fam)
    /\ EnumOf(sv) # <<>>
    /\ sv.signal = "time" => sv.fs # 0

\* The entry the claim names for the base value k: the largest unit with
\* scale <= k, the smallest unit when k is below every scale.
NamedUnit(sv, k) ==
    LET fit == { i \in 1..Len(EnumOf(sv)) : DecGe(k, ScaleOf(sv, i)) }
    IN  IF fit = {} THEN 1 ELSE CHOOSE i \in fit : \A j \in fit : j <= i

\* C15: setting SiValue.value to a base value k selects the largest unit of
\* the signal's table whose scale is <= k, or the smallest unit when k is
\* below every scale, and the spin box displays k / scale of that unit.
C15_LargestUnitSelected ==
    (op = "value_set" /\ HasScales(si) /\ si.items > 0) =>
        LET i == NamedUnit(si, arg.k)
        IN  /\ err = "none"
            /\ si.idx = i - 1
            /\ DecEq(si.spin, SpinValue(DecDivRound(arg.k, ScaleOf(si, i), si.digits),
                                        Dec(0, 0), si.hi, si.digits))

\* C16: for every signal, every unit and every value x the unit can
\* display, SiValue.value = x followed by reading SiValue.value gives x.
C16_UnitRoundTrip ==
    (op = "value_set" /\ DecGe(si.hi, arg.k)) =>
        /\ err = "none"
        /\ ValueGet(si).err = "none"
        /\ DecEq(ValueGet(si).val, arg.k)

\* C17: a condition on a digital signal is accepted only with the equality
\* operation: with '==' the settings are accepted, with an ordering
\* operation the setter rejects them.
C17_DigitalOnlyEquality ==
    (op = "thr_settings" /\ arg.has_signal /\ IsDigitalSignal(arg.signal)
        /\ arg.has_operation /\ arg.has_value) =>
        (err = "none" <=> arg.operation = "==")

\* The units combo box names a unit of the signal that has a scale.
UnitChosen(sv) ==
    \/ EnumOf(sv) = <<>>
    \/ /\ sv.idx >= 0 /\ sv.idx < Len(EnumOf(sv))
       /\ EnumOf(sv)[sv.idx + 1].period => sv.fs # 0

\* C18: resolving a value for a signal name the catalog does not have, or
\* with a unit that is not one of the signal's units (the sample period
\* without a sampling frequency included), reports an error and produces
\* no value.
C18_UnknownReportsError ==
    /\ (op \in {"si_settings", "thr_settings"} /\ arg.has_signal
            /\ arg.signal \notin SignalNames) => err # "none"
    /\ (op = "value_get" /\ ~UnitChosen(si)) => err # "none"

(***************************************************************************)
(* widgets/waveform/trigger.py: the Trigger widget and its sections        *)
(***************************************************************************)

\* A settings document is a function from the keys it holds to values.
EmptyDoc == [k \in {} |-> 0]
Has(x, key) == key \in DOMAIN x
\* dict.get(key, default)
Get(x, key, default) == IF key \in DOMAIN x THEN x[key] ELSE default

SiDocOf(x) ==
    SiDoc(Has(x, "signal"), Get(x, "signal", ""), Has(x, "value"), Get(x, "value", Dec(0, 0)))
ThrDocOf(x) ==
    ThrDoc(Has(x, "signal"), Get(x, "signal", ""), Has(x, "operation"),
           Get(x, "operation", ""), Has(x, "value"), Get(x, "value", Dec(0, 0)))

\* SiValue.settings (getter).  With the sampling frequency and the units a
\* Trigger passes down, reading the value does not raise.
SiSettingsGet(sv) == [value |-> ValueGet(sv).val, signal |-> sv.signal]

\* DurationCheckbox
NewDurationCheckbox(fs) ==
    [checked |-> FALSE, duration |-> NewSiValue("time", fs, "none"), err |-> "none"]
DurationCheckboxGet(w) == SiSettingsGet(w.duration) @@ [enabled |-> w.checked]
DurationCheckboxSet(w, x) ==
    Bind(SiSettingsSet(w.duration, SiDocOf(x)), LAMBDA d :
        [checked |-> Get(x, "enabled", FALSE), duration |-> d, err |-> d.err])

\* WaitCondition
NewWaitCondition(fs) ==
    [duration |-> ValueSet(NewSiValue("time", fs, "none"), Dec(5, -1)), err |-> "none"]
WaitConditionGet(w) == SiSettingsGet(w.duration)
WaitConditionSet(w, x) ==
    Bind(SiSettingsSet(w.duration, SiDocOf(x)), LAMBDA d : [duration |-> d, err |-> d.err])

\* ThresholdSubcondition, with its threshold
NewThresholdSubcondition(signals, fam) ==
    [thr |-> NewThreshold(signals), si |-> NewSiValue("current", 0, fam), err |-> "none"]
ThresholdSubconditionGet(w) ==
    SiSettingsGet(w.si) @@ [operation |-> CurrentText(OPERATIONS, w.thr.op_idx)]
ThresholdSubconditionSet(w, x) == ThresholdSettingsSet(w.thr, w.si, ThrDocOf(x))

\* EdgeCondition
NewEdgeCondition(fs, fam) ==
    [line1 |-> NewThresholdSubcondition(EDGE_SIGNALS, fam),
     duration_min |-> ValueSet(NewSiValue("time", fs, "none"), Dec(1, -5)),
     duration_max |-> ValueSet(NewSiValue("time", fs, "none"), Dec(1, 0)),
     checked |-> FALSE, err |-> "none"]
EdgeConditionGet(w) ==
    [threshold |-> ThresholdSubconditionGet(w.line1),
     duration_min |-> SiSettingsGet(w.duration_min),
     duration_max |-> SiSettingsGet(w.duration_max),
     duration_max_enabled |-> w.checked]
EdgeConditionSet(w, x) ==
    IF ~Has(x, "threshold") THEN [w EXCEPT !.err = "KeyError"]
    ELSE Bind(ThresholdSubconditionSet(w.line1, x["threshold"]), LAMBDA a :
         Bind([w EXCEPT !.line1 = a], LAMBDA w1 :
             IF a.err # "none" THEN [w1 EXCEPT !.err = a.err]
             ELSE IF ~Has(x, "duration_min") THEN [w1 EXCEPT !.err = "KeyError"]
             ELSE Bind(SiSettingsSet(w.duration_min, SiDocOf(x["duration_min"])), LAMBDA b :
                  Bind([w1 EXCEPT !.duration_min = b], LAMBDA w2 :
                      IF b.err # "none" THEN [w2 EXCEPT !.err = b.err]
                      ELSE IF ~Has(x, "duration_max") THEN [w2 EXCEPT !.err = "KeyError"]
                      ELSE Bind(SiSettingsSet(w.duration_max, SiDocOf(x["duration_max"])),
                                LAMBDA c :
                           Bind([w2 EXCEPT !.duration_max = c], LAMBDA w3 :
                               IF c.err # "none" THEN [w3 EXCEPT !.err = c.err]
                               ELSE IF ~Has(x, "duration_max_enabled")
                               THEN [w3 EXCEPT !.err = "KeyError"]
                               ELSE [w3 EXCEPT !.checked = x["duration_max_enabled"],
                                               !.err = "none"]))))))

\* WindowCondition
NewWindowCondition(fs, fam) ==
    [line1 |-> NewThresholdSubcondition(WINDOW_SIGNALS, fam),
     duration |-> NewSiValue("time", fs, fam), err |-> "none"]
WindowConditionGet(w) ==
    [threshold |-> ThresholdSubconditionGet(w.line1),
     duration |-> SiSettingsGet(w.duration)]
WindowConditionSet(w, x) ==
    Bind(ThresholdSubconditionSet(w.line1,
             Get(x, "threshold", [signal |-> "energy", value |-> Dec(1, 0)])),
         LAMBDA a :
        IF a.err # "none" THEN [w EXCEPT !.line1 = a, !.err = a.err]
        ELSE Bind(SiSettingsSet(w.duration,
                      SiDocOf(Get(x, "duration", [signal |-> "time", value |-> Dec(1, -3)]))),
                  LAMBDA b : [line1 |-> a, duration |-> b, err |-> b.err]))

\* GpoAction: the check box and the indices of the two combo boxes
GPO_SIGNALS == << "out0", "out1" >>
NewGpoAction == [enabled |-> FALSE, signal |-> 0, value |-> 0]
GpoActionGet(w) ==
    [enabled |-> w.enabled, signal |-> CurrentText(GPO_SIGNALS, w.signal), value |-> w.value]
GpoActionSet(w, x) ==
    [enabled |-> Get(x, "enabled", FALSE),
     signal |-> FindText(GPO_SIGNALS, Get(x, "signal", "out0")),
     value |-> ComboIndex(2, Get(x, "value", 0))]

\* StartActions
NewStartActions == [ram |-> TRUE, record |-> FALSE, gpo |-> NewGpoAction, err |-> "none"]
StartActionsGet(w) == [ram |-> w.ram, record |-> w.record, gpo |-> GpoActionGet(w.gpo)]
StartActionsSet(w, x) ==
    IF ~Has(x, "ram") THEN [w EXCEPT !.err = "KeyError"]
    ELSE IF ~Has(x, "record") THEN [w EXCEPT !.ram = x["ram"], !.err = "KeyError"]
    ELSE [ram |-> x["ram"], record |-> x["record"],
          gpo |-> GpoActionSet(w.gpo, Get(x, "gpo", EmptyDoc)), err |-> "none"]

\* StopActions
NewStopActions == [gpo |-> NewGpoAction, err |-> "none"]
StopActionsGet(w) == [gpo |-> GpoActionGet(w.gpo)]
StopActionsSet(w, x) ==
    [gpo |-> GpoActionSet(w.gpo, Get(x, "gpo", EmptyDoc)), err |-> "none"]

\* widget.settings of a body item, by the name it was added under.
ContentGet(name, w) ==
    CASE name = "edge" -> EdgeConditionGet(w)
      [] name = "window" -> WindowConditionGet(w)
      [] name = "wait" -> WaitConditionGet(w)
      [] name = "start_actions" -> StartActionsGet(w)
      [] name = "stop_actions" -> StopActionsGet(w)
ContentSet(name, w, x) ==
    CASE name = "edge" -> EdgeConditionSet(w, x)
      [] name = "window" -> WindowConditionSet(w, x)
      [] name = "wait" -> WaitConditionSet(w, x)
      [] name = "start_actions" -> StartActionsSet(w, x)
      [] name = "stop_actions" -> StopActionsSet(w, x)

\* Section after its add_body_item calls: names and content are _content,
\* items / idx / blocked the content combo box, shown the index of the
\* widget in the body.  The first addItem makes index 0 current and runs
\* _on_content_change(0).
NewSection(names, content) ==
    [names |-> names, content |-> content, items |-> Len(names), idx |-> 0,
     shown |-> 0, blocked |-> FALSE, err |-> "none"]

\* A content change that also assigns the empty document to the widget it
\* shows.
OnContentChangeDefaults(sec, index) ==
    [sec EXCEPT !.shown = index,
                !.content[sec.names[index + 1]] =
                    ContentSet(sec.names[index + 1], @, EmptyDoc)]

\* Section._on_content_change
OnContentChange(sec, index) == [sec EXCEPT !.shown = index]

\* The user picks a variant in the content combo box.
ContentPick(sec, index) ==
    IF sec.blocked THEN [sec EXCEPT !.idx = index]
    ELSE OnContentChange([sec EXCEPT !.idx = index], index)

\* Section.settings (getter)
SectionGet(sec) ==
    ("__selected__" :> (IF sec.idx >= 0 /\ sec.idx < sec.items
                        THEN sec.names[sec.idx + 1] ELSE ""))
    @@ [n \in { sec.names[i] : i \in 1..Len(sec.names) } |-> ContentGet(n, sec.content[n])]

RECURSIVE SectionLoop(_, _, _)
\* Section.settings (setter), the loop from the i-th body item on.
SectionLoop(sec, x, i) ==
    IF i > Len(sec.names) THEN [sec EXCEPT !.blocked = FALSE, !.err = "none"]
    ELSE Bind(sec.names[i], LAMBDA key :
         Bind(ContentSet(key, sec.content[key], Get(x, key, EmptyDoc)), LAMBDA w :
         Bind([sec EXCEPT !.items = @ + 1,
                          !.idx = IF sec.items = 0 THEN 0 ELSE @,
                          !.content[key] = w], LAMBDA added :
             IF w.err # "none" THEN [added EXCEPT !.err = w.err]
             ELSE IF Has(x, "__selected__") /\ x["__selected__"] = key
             THEN SectionLoop(OnContentChange(added, i - 1), x, i + 1)
             ELSE SectionLoop(added, x, i + 1))))

\* Section.settings (setter); a section whose setter raised keeps the
\* signals of its combo box blocked.
SectionSet(sec, x) ==
    Bind(SectionLoop([sec EXCEPT !.blocked = TRUE, !.items = 0, !.idx = -1], x, 1),
         LAMBDA r : IF r.err = "none" THEN [r EXCEPT !.blocked = sec.blocked] ELSE r)

\* Trigger._sections
SECTIONS == << "before_start", "start", "start_actions", "stop", "stop_actions",
               "after_stop" >>

\* Trigger.__init__
NewTrigger(fs, fam) ==
    [before_start |-> NewDurationCheckbox(fs),
     start |-> NewSection(<< "edge", "window" >>,
                   [edge |-> NewEdgeCondition(fs, fam),
                    window |-> NewWindowCondition(fs, fam)]),
     start_actions |-> NewSection(<< "start_actions" >>,
                   [start_actions |-> NewStartActions]),
     stop |-> NewSection(<< "wait", "edge", "window" >>,
                   [wait |-> NewWaitCondition(fs),
                    edge |-> NewEdgeCondition(fs, fam),
                    window |-> NewWindowCondition(fs, fam)]),
     stop_actions |-> NewSection(<< "stop_actions" >>,
                   [stop_actions |-> NewStopActions]),
     after_stop |-> NewDurationCheckbox(fs),
     err |-> "none"]

\* The settings getter / setter of a section of the Trigger.
TriggerSectionGet(name, w) ==
    IF name \in {"before_start", "after_stop"} THEN DurationCheckboxGet(w) ELSE SectionGet(w)
TriggerSectionSet(name, w, x) ==
    IF name \in {"before_start", "after_stop"} THEN DurationCheckboxSet(w, x)
    ELSE SectionSet(w, x)

\* Trigger.settings (getter)
TriggerSettingsGet(t) == [n \in { SECTIONS[i] : i \in 1..Len(SECTIONS) } |->
                              TriggerSectionGet(n, t[n])]

RECURSIVE TriggerLoop(_, _, _)
\* Trigger.settings (setter), the loop from the i-th section on.
TriggerLoop(t, x, i) ==
    IF i > Len(SECTIONS) THEN [t EXCEPT !.err = "none"]
    ELSE Bind(SECTIONS[i], LAMBDA name :
         Bind(TriggerSectionSet(name, t[name], Get(x, name, EmptyDoc)), LAMBDA w :
             IF w.err # "none" THEN [t EXCEPT ![name] = w, !.err = w.err]
             ELSE TriggerLoop([t EXCEPT ![name] = w], x, i + 1)))

\* TRIGGER_SETTINGS_DEFAULT
DEFAULT_EDGE(operation, value) ==
    [threshold |-> [signal |-> "current", operation |-> operation, value |-> value],
     duration_min |-> [value |-> Dec(1, -5), signal |-> "time"],
     duration_max |-> [value |-> Dec(1, 0), signal |-> "time"],
     duration_max_enabled |-> FALSE]

TRIGGER_SETTINGS_DEFAULT ==
    [before_start |-> [enabled |-> TRUE, value |-> Dec(1, -3), signal |-> "time"],
     start |-> ("__selected__" :> "edge") @@
               [edge |-> DEFAULT_EDGE(">", Dec(1, -5)),
                window |-> [threshold |-> [signal |-> "energy", operation |-> ">",
                                           value |-> Dec(1, 0)],
                            duration |-> [value |-> Dec(1, -1), signal |-> "time"]]],
     start_actions |-> [start_actions |-> [ram |-> TRUE, record |-> FALSE]],
     stop |-> ("__selected__" :> "duration") @@
              [wait |-> [value |-> Dec(5, -1), signal |-> "time"],
               edge |-> DEFAULT_EDGE("<", Dec(9, -1))],
     after_stop |-> [enabled |-> FALSE, value |-> Dec(1, -3), signal |-> "time"]]

\* The document x without a key, and with a key set.
Without(x, key) == [k \in (DOMAIN x) \ {key} |-> x[k]]
With(x, key, v) == (key :> v) @@ x

\* The documents assigned to Trigger.settings: the default document, the
\* same with another selected variant, and documents that miss sections or
\* keys of a section, the empty document among them.
WellFormedDocs ==
    LET D == TRIGGER_SETTINGS_DEFAULT
    IN  { D, With(D, "start", With(D.start, "__selected__", "window")) }
        \cup { With(D, "stop", With(D.stop, "__selected__", "edge")) }
PartialDocs ==
    LET D == TRIGGER_SETTINGS_DEFAULT
    IN  { EmptyDoc,
          Without(D, "after_stop"),
          With(D, "start", Without(D.start, "window")),
          With(D, "start", With(D.start, "edge",
                                Without(D.start.edge, "duration_max_enabled"))),
          With(D, "start_actions", EmptyDoc) }

otherThanWf == <<status, run_mode_checked, connected, widgets, config, bus_status,
                 bus_mode, session_open, si, thr, edge, cw, js, drv, tp>>

InitWf ==
    /\ NoTriggerWidget
    /\ si = Idle /\ thr = Idle /\ edge = Idle /\ cw = Idle /\ js = Idle /\ drv = Idle /\ tp = Idle
    /\ op = "init" /\ err = "none" /\ arg = Idle
    /\ wf = NewTrigger(SamplingFrequency, "J")

\* trigger.settings = x; None is replaced by the default document.
WfSettingsSet ==
    /\ \E inp \in { [none |-> FALSE, doc |-> d] : d \in WellFormedDocs \cup PartialDocs }
                  \cup { [none |-> TRUE, doc |-> EmptyDoc] } :
        \E x \in { IF inp.none THEN TRIGGER_SETTINGS_DEFAULT ELSE inp.doc } :
            /\ wf' = TriggerLoop(wf, x, 1)
            /\ arg' = [doc |-> x]
    /\ op' = "settings_set"
    /\ err' = wf'.err
    /\ UNCHANGED otherThanWf

\* trigger.settings is read.
WfSettingsGet ==
    /\ op' = "settings_get"
    /\ err' = "none"
    /\ arg' = [doc |-> TriggerSettingsGet(wf)]
    /\ UNCHANGED <<otherThanWf, wf>>

\* The user picks a variant in the combo box of a section.
WfContentPick ==
    /\ \E name \in {"start", "start_actions", "stop", "stop_actions"} :
        \E i \in 0..(wf[name].items - 1) :
            /\ i # wf[name].idx
            /\ wf' = [wf EXCEPT ![name] = ContentPick(@, i)]
            /\ arg' = [section |-> name, index |-> i]
    /\ op' = "content_change"
    /\ err' = "none"
    /\ UNCHANGED otherThanWf

NextWf ==
    \/ WfSettingsSet
    \/ WfSettingsGet
    \/ WfContentPick

SpecWf == InitWf /\ [][NextWf]_vars

(***************************************************************************)
(* Claims about the settings of the Trigger widget                         *)
(***************************************************************************)

\* C11: assigning Trigger.settings a document that misses any sections or
\* keys, the empty document included, never raises, and afterwards every
\* section reads back.
C11_MissingKeysDefaulted ==
    op = "settings_set" =>
        /\ err = "none"
        /\ DOMAIN TriggerSettingsGet(wf) = { SECTIONS[i] : i \in 1..Len(SECTIONS) }

\* The keys of a settings document that hold a document.
DocKeys ==
    { SECTIONS[i] : i \in 1..Len(SECTIONS) }
    \cup { "edge", "window", "wait", "threshold", "duration_min", "duration_max",
           "duration", "gpo" }

RECURSIVE Agree(_, _)
\* The document g has every key of the document s, with the same value.
Agree(s, g) ==
    \A k \in DOMAIN s :
        /\ k \in DOMAIN g
        /\ IF k \in DocKeys THEN Agree(s[k], g[k])
           ELSE IF k = "value" THEN DecEq(s[k], g[k])
           ELSE s[k] = g[k]

\* C13: for a well-formed document s, the default document in particular,
\* assigning s to Trigger.settings and reading Trigger.settings gives a
\* document that agrees with s on every key of s, '__selected__' included.
C13_SettingsRoundTrip ==
    (op = "settings_set" /\ arg.doc \in WellFormedDocs) =>
        /\ err = "none"
        /\ Agree(arg.doc, TriggerSettingsGet(wf))

\* C14: switching the selected variant of a section changes '__selected__'
\* of that section and nothing else of what the settings read: the stored
\* settings of every variant of every section stay as they were.
C14_SwitchKeepsSettings ==
    [][op' = "content_change" =>
        /\ \A n \in DOMAIN TriggerSettingsGet(wf) :
              Without(TriggerSettingsGet(wf')[n], "__selected__")
                  = Without(TriggerSettingsGet(wf)[n], "__selected__")
        /\ TriggerSettingsGet(wf')[arg'.section]["__selected__"]
              = wf[arg'.section].names[arg'.index + 1]]_vars

\* The stop section has been switched to its window variant after the
\* default document was assigned.
C14_Witness ==
    /\ op = "content_change"
    /\ arg.section = "stop" /\ arg.index = 2
    /\ wf.stop.shown = 2
    /\ Agree(Without(TRIGGER_SETTINGS_DEFAULT, "stop"), TriggerSettingsGet(wf))

(***************************************************************************)
(* The evaluation of an edge condition.  EdgeCondition in the source is    *)
(* the editor of the condition's settings; the evaluation is modelled from *)
(* the description of evaluate_edge, over samples one tick apart           *)
(***************************************************************************)

\* The last sample time and the longest duration followed, in ticks.
MaxTime == 6
MaxDuration == 2

\* The settings of an edge condition that evaluation reads.
EdgeSettings ==
    [duration_min : 0..MaxDuration, duration_max : 0..MaxDuration,
     duration_max_enabled : BOOLEAN]

\* evaluate_edge without the latch: a match on every sample past
\* duration_min.
EvaluateEdgeUnlatched(st, cond, t, holds) ==
    LET at == IF st.crossed_at = -1 THEN t ELSE st.crossed_at
    IN  IF ~holds THEN [crossed_at |-> -1, crossed |-> FALSE, match |-> FALSE]
        ELSE IF cond.duration_max_enabled /\ t - at > cond.duration_max
        THEN [crossed_at |-> -1, crossed |-> FALSE, match |-> FALSE]
        ELSE IF t - at >= cond.duration_min
        THEN [crossed_at |-> at, crossed |-> TRUE, match |-> TRUE]
        ELSE [crossed_at |-> at, crossed |-> FALSE, match |-> FALSE]

\* evaluate_edge for one sample: st is {crossed_at (-1 for None), crossed},
\* holds tells whether the comparison holds for the sample at time t.
EvaluateEdge(st, cond, t, holds) ==
    LET at == IF st.crossed_at = -1 THEN t ELSE st.crossed_at
    IN  IF ~holds THEN [crossed_at |-> -1, crossed |-> FALSE, match |-> FALSE]
        ELSE IF st.crossed THEN [crossed_at |-> at, crossed |-> TRUE, match |-> FALSE]
        ELSE IF cond.duration_max_enabled /\ t - at > cond.duration_max
        THEN [crossed_at |-> -1, crossed |-> FALSE, match |-> FALSE]
        ELSE IF t - at >= cond.duration_min
        THEN [crossed_at |-> at, crossed |-> TRUE, match |-> TRUE]
        ELSE [crossed_at |-> at, crossed |-> FALSE, match |-> FALSE]

otherThanEdge == <<status, run_mode_checked, connected, widgets, config, bus_status,
                   bus_mode, session_open, si, thr, wf, cw, js, drv, tp>>

\* edge: the condition, the evaluation state, the time of the last sample,
\* and what an observer of the stream keeps: t0, the time of the first
\* sample of the present run of samples for which the comparison holds (-1
\* outside a run), and the times of the matches in that run.
InitEdge ==
    /\ NoTriggerWidget
    /\ si = Idle /\ thr = Idle /\ wf = Idle /\ cw = Idle /\ js = Idle /\ drv = Idle /\ tp = Idle
    /\ op = "init" /\ err = "none" /\ arg = Idle
    /\ \E cond \in EdgeSettings :
        edge = [cond |-> cond, crossed_at |-> -1, crossed |-> FALSE, now |-> 0,
                t0 |-> -1, matches |-> <<>>]

\* The next sample is evaluated.
EdgeSample ==
    /\ edge.now < MaxTime
    /\ \E holds \in BOOLEAN :
        LET t == edge.now + 1
            r == EvaluateEdge(edge, edge.cond, t, holds)
            t0 == IF ~holds THEN -1 ELSE IF edge.t0 = -1 THEN t ELSE edge.t0
            kept == IF holds /\ edge.t0 # -1 THEN edge.matches ELSE <<>>
        IN  /\ edge' = [edge EXCEPT !.crossed_at = r.crossed_at,
                                    !.crossed = r.crossed,
                                    !.now = t,
                                    !.t0 = t0,
                                    !.matches = IF r.match THEN Append(kept, t) ELSE kept]
            /\ arg' = [holds |-> holds]
    /\ op' = "sample"
    /\ err' = "none"
    /\ UNCHANGED otherThanEdge

NextEdge == EdgeSample

SpecEdge == InitEdge /\ [][NextEdge]_vars

\* A crossing qualifies unless a maximum duration shorter than the minimum
\* is enabled.
Qualifying(cond) == ~cond.duration_max_enabled \/ cond.duration_max >= cond.duration_min

\* C19: an edge condition fires exactly once per qualifying crossing: when
\* the comparison starts to hold at t0 and keeps holding, the match fires
\* at t0 + duration_min, not before, and not a second time.
C19_FiresOncePerCrossing ==
    /\ Len(edge.matches) <= 1
    /\ (edge.t0 # -1 /\ Qualifying(edge.cond)) =>
        IF edge.now - edge.t0 >= edge.cond.duration_min
        THEN edge.matches = << edge.t0 + edge.cond.duration_min >>
        ELSE edge.matches = <<>>

\* The comparison has held for longer than a positive duration_min and the
\* match has fired.
C19_Witness ==
    /\ edge.t0 # -1
    /\ edge.cond.duration_min > 0
    /\ edge.now - edge.t0 > edge.cond.duration_min
    /\ edge.matches = << edge.t0 + edge.cond.duration_min >>

(***************************************************************************)
(* widgets/trigger/trigger_widget.py: ConditionWidget, StartActionsWidget, *)
(* StopActionsWidget and TriggerWidget._config_set                         *)
(***************************************************************************)

\* _SIGNAL_UNITS; "" stands for None.
SIGNAL_UNITS(signal) ==
    CASE signal = "i" -> "A" [] signal = "v" -> "V" [] signal = "p" -> "W" [] OTHER -> ""

\* _SI_PREFIX; "u" stands for the micro sign.
SI_PREFIXES == {"n", "u", "m", "", "k"}
SI_PREFIX(prefix) ==
    CASE prefix = "n" -> Dec(1, -9) [] prefix = "u" -> Dec(1, -6)
      [] prefix = "m" -> Dec(1, -3) [] prefix = "" -> Dec(1, 0)
      [] prefix = "k" -> Dec(1, 3)

\* _is_digital_signal
IsDigital(signal) == signal \in {"0", "1", "2", "3", "T"}

\* The names of _CONDITION_TYPE_LIST, _EDGE_CONDITION_LIST,
\* _DURATION_CONDITION_LIST, _DIGITAL_DURATION_CONDITION_LIST and
\* _DURATION_META_SIGNALS.
CONDITION_TYPES == << "edge", "duration" >>
EDGE_CONDITIONS == << "rising", "falling", "both" >>
DURATION_CONDITIONS == << ">", "<", "between", "outside" >>
DIGITAL_DURATION_CONDITIONS == << "0", "1" >>
DURATION_META_SIGNALS == << "always", "never" >>

\* a / b for b a power of ten.
DecDivPow10(a, b) == Norm(Dec(a.m, a.e - b.e))

\* f'{v:g}' read back by str_to_float: v rounded to six significant digits.
FormatG(v) ==
    Bind(Norm(v), LAMBDA x :
        LET n == NumDigits(x.m)
        IN  IF n <= 6 THEN x
            ELSE Norm(Dec((x.m + Pow10(n - 6) \div 2) \div Pow10(n - 6), x.e + n - 6)))

\* The signals the connected device enumerates.
DeviceSignals == << "i", "v", "r", "0" >>

\* ConditionWidget._signal_list_with_meta
SignalListWithMeta(w) ==
    IF w.type_idx = 1 THEN w.signal_list \o DURATION_META_SIGNALS ELSE w.signal_list

\* ConditionWidget._condition_list_get for a signal; the test for a meta
\* signal compares a name with the pairs of the list and never holds.
ConditionListGet(w, signal) ==
    IF w.type_idx = 0 THEN EDGE_CONDITIONS
    ELSE IF IsDigital(signal) THEN DIGITAL_DURATION_CONDITIONS
    ELSE DURATION_CONDITIONS

\* The prefixes of the units combo box for a signal with a unit.
UnitPrefixes(signal) == IF signal = "v" THEN << "m", "" >> ELSE << "n", "u", "m", "" >>

\* The prefix the units combo box shows: '' for a text of at most one
\* character, an empty box included.
CurrentPrefix(w) == CurrentText(w.units, w.units_idx)

\* ui_util.comboBoxConfig: the new index of a combo box that held `old`
\* with index idx and is given `new`: the text it showed when `new` has it,
\* else the first item.
ComboBoxConfig(old, idx, new) ==
    Bind(FindText(new, CurrentText(old, idx)), LAMBDA kept :
        IF idx >= 0 /\ idx < Len(old) /\ kept # -1 THEN kept
        ELSE IF new = <<>> THEN -1 ELSE 0)

\* ConditionWidget._value_units_update
ValueUnitsUpdate(w) ==
    Bind(SI_PREFIX(CurrentPrefix(w)), LAMBDA scale :
    Bind(DecDivPow10(IF w.scale_set THEN w.value_scale ELSE Dec(1, 0), scale), LAMBDA k :
        [w EXCEPT !.value1 = FormatG(DecMul(@, k)),
                  !.value2 = FormatG(DecMul(@, k)),
                  !.value_scale = scale,
                  !.scale_set = TRUE]))

\* ConditionWidget._visibility_update, with the slots the combo boxes it
\* configures run.
VisibilityUpdate(w) ==
    Bind(SignalListWithMeta(w), LAMBDA sigs :
    Bind(ComboBoxConfig(w.signal_items, w.signal_idx, sigs), LAMBDA sidx :
    Bind2([w EXCEPT !.signal_items = sigs, !.signal_idx = sidx], CurrentText(sigs, sidx),
          LAMBDA w1, signal :
        IF sidx = -1 \/ signal \in {"always", "never"} THEN w1
        ELSE Bind(ConditionListGet(w1, signal), LAMBDA conds :
             Bind([w1 EXCEPT !.cond_idx = ComboBoxConfig(w.cond_items, w.cond_idx, conds),
                             !.cond_items = conds], LAMBDA w2 :
                 IF SIGNAL_UNITS(signal) = ""
                 THEN [w2 EXCEPT !.units = <<>>, !.units_idx = -1, !.unit = ""]
                 ELSE ValueUnitsUpdate([w2 EXCEPT
                          !.units = UnitPrefixes(signal),
                          !.units_idx = Len(UnitPrefixes(signal)) - 1,
                          !.unit = SIGNAL_UNITS(signal)]))))))

\* ConditionWidget.__init__ followed by on_signal_list
NewConditionWidget(signals) ==
    VisibilityUpdate(
        [type_idx |-> 0, signal_list |-> signals, signal_items |-> <<>>, signal_idx |-> -1,
         cond_items |-> <<>>, cond_idx |-> -1, value1 |-> Dec(0, 0), value2 |-> Dec(0, 0),
         units |-> <<>>, units_idx |-> -1, unit |-> "", value_scale |-> Dec(1, 0),
         scale_set |-> FALSE, duration |-> Dec(1, 0), err |-> "none"])

\* ConditionWidget.config (getter)
ConditionConfigGet(w) ==
    LET scale == SI_PREFIX(CurrentPrefix(w))
    IN  [type |-> CONDITION_TYPES[w.type_idx + 1],
         signal |-> CurrentText(w.signal_items, w.signal_idx),
         condition |-> CurrentText(w.cond_items, w.cond_idx),
         value1 |-> DecMul(w.value1, scale),
         value2 |-> DecMul(w.value2, scale),
         value_unit |-> CurrentPrefix(w),
         duration |-> w.duration]

\* ui_util.comboBoxSelectItemByText on the units combo box: the item with
\* the text when the box has it.
UnitsSelect(w, prefix) ==
    IF FindText(w.units, prefix) # -1 THEN [w EXCEPT !.units_idx = FindText(w.units, prefix)]
    ELSE w

\* ConditionWidget.config (setter) for a document (None is replaced by the
\* caller with the widget's own config).
ConditionConfigSet(w, value) ==
    Bind(FindText(CONDITION_TYPES, Get(value, "type", "edge")), LAMBDA tidx :
    IF tidx = -1 THEN [w EXCEPT !.err = "ValueError"]
    ELSE
    Bind(VisibilityUpdate([w EXCEPT !.type_idx = tidx]), LAMBDA w1 :
    Bind(FindText(SignalListWithMeta(w1), Get(value, "signal", "None")), LAMBDA sidx :
    IF sidx = -1 THEN [w1 EXCEPT !.err = "ValueError"]
    ELSE
    Bind2(VisibilityUpdate([w1 EXCEPT !.signal_idx = sidx]),
          CurrentText(SignalListWithMeta(w1), sidx), LAMBDA w2, signal :
    IF ~Has(value, "condition") THEN [w2 EXCEPT !.err = "KeyError"]
    ELSE
    Bind(FindText(ConditionListGet(w2, signal), value["condition"]), LAMBDA cidx :
    IF cidx = -1 THEN [w2 EXCEPT !.err = "ValueError"]
    ELSE
    Bind2(VisibilityUpdate([w2 EXCEPT !.cond_idx = cidx]), Get(value, "value_unit", ""),
          LAMBDA w3, v_unit :
    Bind(IF SIGNAL_UNITS(signal) = "" THEN w3 ELSE ValueUnitsUpdate(UnitsSelect(w3, v_unit)),
         LAMBDA w4 :
    IF v_unit \notin SI_PREFIXES THEN [w4 EXCEPT !.err = "KeyError"]
    ELSE IF ~Has(value, "value1") THEN [w4 EXCEPT !.err = "KeyError"]
    ELSE
    Bind2(SI_PREFIX(v_unit), FormatG(DecDivPow10(value["value1"], SI_PREFIX(v_unit))),
          LAMBDA v_scale, text1 :
    IF ~Has(value, "value2") THEN [w4 EXCEPT !.value1 = text1, !.err = "KeyError"]
    ELSE IF ~Has(value, "duration")
    THEN [w4 EXCEPT !.value1 = text1,
                    !.value2 = FormatG(DecDivPow10(value["value2"], v_scale)),
                    !.err = "KeyError"]
    ELSE [w4 EXCEPT !.value1 = text1,
                    !.value2 = FormatG(DecDivPow10(value["value2"], v_scale)),
                    !.duration = value["duration"],
                    !.err = "none"]))))))))

\* The outputs the connected device enumerates.
OutputList == << "0", "1" >>

\* StartActionsWidget.__init__ followed by on_output_list, as the document
\* StartActionsWidget.config reads.
NewStartActionsWidget ==
    [sample_record |-> FALSE, stats_record |-> FALSE, output |-> FALSE,
     single_marker |-> FALSE,
     sample_record_pre |-> Dec(1, -1), sample_record_post |-> Dec(1, 0),
     stats_record_pre |-> Dec(1, 0), stats_record_post |-> Dec(1, 0),
     output_signal |-> "0", output_value |-> 1]

\* The keys StartActionsWidget.config (setter) subscripts, in its order.
StartActionsKeys ==
    << "sample_record", "stats_record", "output", "single_marker",
       "sample_record_pre", "sample_record_post", "stats_record_pre",
       "stats_record_post", "output_signal", "output_value" >>

RECURSIVE StartActionsConfigSet(_, _, _)
\* StartActionsWidget.config (setter) from its i-th subscript on.
StartActionsConfigSet(w, value, i) ==
    IF i > Len(StartActionsKeys) THEN [w |-> w, err |-> "none"]
    ELSE Bind(StartActionsKeys[i], LAMBDA key :
        IF ~Has(value, key) THEN [w |-> w, err |-> "KeyError"]
        ELSE IF key = "output_signal" /\ FindText(OutputList, value[key]) = -1
        THEN StartActionsConfigSet(w, value, i + 1)
        ELSE StartActionsConfigSet([w EXCEPT ![key] = value[key]], value, i + 1))

\* StopActionsWidget.__init__ followed by on_output_list, as the document
\* StopActionsWidget.config reads.
NewStopActionsWidget ==
    [output |-> FALSE, single_marker |-> FALSE, dual_marker |-> FALSE,
     buffer_stop |-> FALSE, output_signal |-> "0", output_value |-> 0,
     buffer_stop_delay |-> Dec(1, 0)]

\* StopActionsWidget.config (setter)
StopActionsConfigSet(w, value) ==
    [output |-> Get(value, "output", FALSE),
     single_marker |-> Get(value, "single_marker", FALSE),
     dual_marker |-> Get(value, "dual_marker", FALSE),
     buffer_stop |-> Get(value, "buffer_stop", FALSE),
     output_signal |-> IF FindText(OutputList, Get(value, "output_signal", "0")) = -1
                       THEN w.output_signal ELSE Get(value, "output_signal", "0"),
     output_value |-> Get(value, "output_value", 0),
     buffer_stop_delay |-> Get(value, "buffer_stop_delay", Dec(0, 0))]

\* TriggerWidget._config_get over the four widgets of c.
WidgetConfigGet(c) ==
    [run_mode |-> c.run_mode,
     start_condition |-> ConditionConfigGet(c.start_condition),
     start_actions |-> c.start_actions,
     stop_condition |-> ConditionConfigGet(c.stop_condition),
     stop_actions |-> c.stop_actions]

\* TriggerWidget._config_set of a connected widget for a document: the
\* widgets afterwards and the exception that left it, if any.
WidgetConfigSet(c, value) ==
    Bind([c EXCEPT !.run_mode = Get(value, "run_mode", FALSE)], LAMBDA c0 :
    IF ~Has(value, "start_condition") THEN [c |-> c0, err |-> "KeyError"]
    ELSE
    Bind(ConditionConfigSet(c.start_condition, value["start_condition"]), LAMBDA sc :
    Bind([c0 EXCEPT !.start_condition = [sc EXCEPT !.err = "none"]], LAMBDA c1 :
    IF sc.err # "none" THEN [c |-> c1, err |-> sc.err]
    ELSE IF ~Has(value, "start_actions") THEN [c |-> c1, err |-> "KeyError"]
    ELSE
    Bind(StartActionsConfigSet(c.start_actions, value["start_actions"], 1), LAMBDA sa :
    Bind([c1 EXCEPT !.start_actions = sa.w], LAMBDA c2 :
    IF sa.err # "none" THEN [c |-> c2, err |-> sa.err]
    ELSE IF ~Has(value, "stop_condition") THEN [c |-> c2, err |-> "KeyError"]
    ELSE
    Bind(ConditionConfigSet(c.stop_condition, value["stop_condition"]), LAMBDA pc :
    Bind([c2 EXCEPT !.stop_condition = [pc EXCEPT !.err = "none"]], LAMBDA c3 :
    IF pc.err # "none" THEN [c |-> c3, err |-> pc.err]
    ELSE IF ~Has(value, "stop_actions") THEN [c |-> c3, err |-> "KeyError"]
    ELSE [c |-> [c3 EXCEPT !.stop_actions = StopActionsConfigSet(@, value["stop_actions"])],
          err |-> "none"])))))))

\* A condition document with every key.
CondDoc(type, signal, condition, value1, value2, value_unit) ==
    [type |-> type, signal |-> signal, condition |-> condition, value1 |-> value1,
     value2 |-> value2, value_unit |-> value_unit, duration |-> Dec(1, 0)]

\* The start conditions of the documents assigned: ones the getter
\* returns, among them a value typed with more than six digits, and ones
\* with a key missing or a name that is not in the lists.
StartConditions ==
    LET E == CondDoc("edge", "i", "rising", Dec(15, -1), Dec(2, 0), "")
    IN  { E,
          CondDoc("edge", "i", "falling", Dec(12345678, -10), Dec(0, 0), "m"),
          CondDoc("duration", "v", "between", Dec(25, -4), Dec(3, -3), "m"),
          CondDoc("duration", "0", "1", Dec(0, 0), Dec(0, 0), ""),
          CondDoc("edge", "x", "rising", Dec(0, 0), Dec(0, 0), ""),
          CondDoc("edge", "i", ">", Dec(0, 0), Dec(0, 0), ""),
          Without(E, "type"),
          Without(E, "value_unit"),
          Without(E, "condition"),
          Without(E, "value2") }

\* The documents assigned to the widget.
WidgetConfigs ==
    LET F == [run_mode |-> FALSE,
              start_condition |-> CondDoc("edge", "i", "rising", Dec(15, -1), Dec(2, 0), ""),
              start_actions |-> NewStartActionsWidget,
              stop_condition |-> CondDoc("duration", "v", ">", Dec(1, 0), Dec(0, 0), ""),
              stop_actions |-> NewStopActionsWidget]
    IN  { With(F, "start_condition", sc) : sc \in StartConditions }
        \cup { Without(F, "run_mode"),
               Without(F, "start_condition"),
               Without(F, "stop_actions"),
               With(F, "start_actions", Without(NewStartActionsWidget, "output")),
               With(F, "stop_actions", EmptyDoc) }

\* The numbers typed into the first value field.
TypedValues == { Dec(12345678, -7) }

otherThanCw == <<status, run_mode_checked, connected, widgets, config, bus_status,
                 bus_mode, session_open, si, thr, wf, edge, js, drv, tp>>

\* cw: the run-mode button and the four widgets of a TriggerWidget that
\* _connect() has connected to a device, with no stored config.
InitCw ==
    /\ NoTriggerWidget
    /\ si = Idle /\ thr = Idle /\ wf = Idle /\ edge = Idle /\ js = Idle /\ drv = Idle /\ tp = Idle
    /\ op = "init" /\ err = "none" /\ arg = Idle
    /\ cw = [run_mode |-> FALSE,
             start_condition |-> NewConditionWidget(DeviceSignals),
             start_actions |-> NewStartActionsWidget,
             stop_condition |-> NewConditionWidget(DeviceSignals),
             stop_actions |-> NewStopActionsWidget]

\* on_setting_config -> _config_set(value)
CwConfigSet ==
    /\ \E value \in WidgetConfigs :
        \E r \in { WidgetConfigSet(cw, value) } :
            /\ cw' = r.c
            /\ err' = r.err
            /\ arg' = [doc |-> value]
    /\ op' = "config_set"
    /\ UNCHANGED otherThanCw

\* The run-mode button is toggled: _on_config_update ->
\* _config_set(_config_get()).
CwRunModeToggle ==
    /\ \E value \in { WidgetConfigGet([cw EXCEPT !.run_mode = ~@]) } :
        \E r \in { WidgetConfigSet([cw EXCEPT !.run_mode = ~@], value) } :
            /\ cw' = r.c
            /\ err' = r.err
            /\ arg' = [doc |-> value]
    /\ op' = "run_mode_toggle"
    /\ UNCHANGED otherThanCw

\* A number is typed into the first value field of the start condition.
CwValueEdit ==
    /\ \E v \in TypedValues :
        /\ cw' = [cw EXCEPT !.start_condition.value1 = v]
        /\ arg' = [value |-> v]
    /\ op' = "value_edit"
    /\ err' = "none"
    /\ UNCHANGED otherThanCw

\* A unit is picked in the start condition: _on_value_units.
CwUnitsPick ==
    /\ \E i \in 0..(Len(cw.start_condition.units) - 1) :
        /\ i # cw.start_condition.units_idx
        /\ cw' = [cw EXCEPT !.start_condition = ValueUnitsUpdate([@ EXCEPT !.units_idx = i])]
        /\ arg' = [index |-> i]
    /\ op' = "units_pick"
    /\ err' = "none"
    /\ UNCHANGED otherThanCw

\* The config of the start condition is read.
CwConfigGet ==
    /\ op' = "config_get"
    /\ err' = "none"
    /\ arg' = [doc |-> ConditionConfigGet(cw.start_condition)]
    /\ UNCHANGED cw
    /\ UNCHANGED otherThanCw

NextCw ==
    \/ CwConfigSet
    \/ CwRunModeToggle
    \/ CwValueEdit
    \/ CwUnitsPick
    \/ CwConfigGet

SpecCw == InitCw /\ [][NextCw]_vars

(***************************************************************************)
(* Claims about the config setters of the trigger widget                   *)
(***************************************************************************)

\* C12: _config_set and the config setters of ConditionWidget,
\* StartActionsWidget and StopActionsWidget accept a configuration with
\* missing keys, or with a signal or condition name that is not in the
\* enumerated lists, without raising.
C12_PartialConfigAccepted == op = "config_set" => err = "none"

\* The value1, value2 and value_unit of a condition document are those of
\* another.
SameValues(a, b) ==
    /\ DecEq(a.value1, b.value1)
    /\ DecEq(a.value2, b.value2)
    /\ a.value_unit = b.value_unit

\* C20: ConditionWidget.config reads value1 and value2 in base units, the
\* displayed number times the scale of the SI prefix, and value_unit as that
\* prefix alone; a config that was assigned reads back with the same
\* value1, value2 and value_unit.
C20_ValuesRoundTrip ==
    /\ op = "config_get" =>
        /\ DecEq(arg.doc.value1,
                 DecMul(cw.start_condition.value1, SI_PREFIX(arg.doc.value_unit)))
        /\ DecEq(arg.doc.value2,
                 DecMul(cw.start_condition.value2, SI_PREFIX(arg.doc.value_unit)))
        /\ arg.doc.value_unit \in SI_PREFIXES
        /\ arg.doc.value_unit = CurrentText(cw.start_condition.units,
                                            cw.start_condition.units_idx)
    /\ (op \in {"config_set", "run_mode_toggle"} /\ err = "none"
        /\ {"value1", "value2", "value_unit"} \subseteq DOMAIN arg.doc.start_condition) =>
        SameValues(ConditionConfigGet(cw.start_condition), arg.doc.start_condition)

(***************************************************************************)
(* Claims about changes of the displayed unit                              *)
(***************************************************************************)

\* The value in base units that a ConditionWidget shows in a field: the
\* displayed number times the scale the number is displayed in.
BaseOf(w, shown) ==
    DecMul(shown, IF w.scale_set THEN w.value_scale ELSE Dec(1, 0))

\* C21: a change of the displayed unit alone (SiValue._on_units_change,
\* ConditionWidget._value_units_update) leaves the value in base units
\* unchanged: the displayed number times the new scale after the change
\* equals the displayed number times the old scale before it.
C21_UnitChangeKeepsBase ==
    [][op' = "units_pick" =>
        /\ DecEq(BaseOf(cw'.start_condition, cw'.start_condition.value1),
                 BaseOf(cw.start_condition, cw.start_condition.value1))
        /\ DecEq(BaseOf(cw'.start_condition, cw'.start_condition.value2),
                 BaseOf(cw.start_condition, cw.start_condition.value2))]_vars

\* The same for a SiValue whose units combo box emits its signals: the
\* value read after the pick is the value read before it.
SiUnitChangeKeepsBase ==
    [][(op' = "units_pick" /\ ~si.blocked /\ si'.err = "none"
        /\ ValueFromIndex(si, si.prev).err = "none") =>
        DecEq(ValueGet(si').val, ValueFromIndex(si, si.prev).val)]_vars

(***************************************************************************)
(* devices/jsdrv/js220.py: the commands of the worker and the statistics   *)
(***************************************************************************)

\* A message published to the driver.
Msg(topic, value) == [topic |-> topic, value |-> value]

\* bool(value) of a setting value; False is 0 and True is 1.
Bool(value) == value # 0

\* _GPO_BIT
GPO_BIT == [c \in {"0", "1", "T"} |-> CASE c = "0" -> 1 [] c = "1" -> 2 [] c = "T" -> 128]

\* The channels of the 'out/<c>' settings.
GpoChannels == DOMAIN GPO_BIT

\* _SIGNALS[signal_id]['topics'][0] of the signals the model follows.
SignalCtrlTopic == [s \in {"i", "v", "r"} |->
    CASE s = "i" -> "s/i/ctrl" [] s = "v" -> "s/v/ctrl" [] s = "r" -> "s/i/range/ctrl"]

\* _current_range_update without the test of self.target_power.
CurrentRangeUpdateAppOnly(d) ==
    IF d.target_power_app
    THEN IF d.current_range = -1
         THEN << Msg("s/i/range/mode", "auto") >>
         ELSE << Msg("s/i/range/select", d.current_range),
                 Msg("s/i/range/mode", "manual") >>
    ELSE << Msg("s/i/range/mode", "off") >>

\* Js220._current_range_update: the driver messages it publishes, given
\* self._target_power_app, self.target_power and self.current_range.
CurrentRangeUpdate(d) ==
    IF d.target_power_app /\ d.target_power
    THEN IF d.current_range = -1
         THEN << Msg("s/i/range/mode", "auto") >>
         ELSE << Msg("s/i/range/select", d.current_range),
                 Msg("s/i/range/mode", "manual") >>
    ELSE << Msg("s/i/range/mode", "off") >>

\* _run_cmd_settings that always publishes to 's/gpo/+/!set' for 'out/<c>'.
RunCmdSettingsSetOnly(d, parts, value) ==
    IF parts[1] = "out" /\ Len(parts) > 1
    THEN << Msg("s/gpo/+/!set", GPO_BIT[parts[2]]) >>
    ELSE << >>

\* Js220._run_cmd_settings(topic, value): the driver messages it publishes.
\* parts is the topic split at '/'.
RunCmdSettings(d, parts, value) ==
    IF parts[Len(parts)] = "enable" /\ Len(parts) > 1
    THEN << Msg(SignalCtrlTopic[parts[2]], Bool(value)) >>
    ELSE IF parts[1] = "out" /\ Len(parts) > 1
    THEN << Msg(IF Bool(value) THEN "s/gpo/+/!set" ELSE "s/gpo/+/!clr",
                GPO_BIT[parts[2]]) >>
    ELSE IF parts = << "signal_frequency" >> THEN << Msg("h/fs", value) >>
    ELSE IF parts = << "statistics_frequency" >>
    THEN << Msg("s/stats/scnt", 1000000 \div value) >>
    ELSE IF parts = << "target_power" >> THEN CurrentRangeUpdate(d)
    ELSE IF parts = << "current_range" >> THEN CurrentRangeUpdate(d)
    ELSE IF parts = << "voltage_range" >>
    THEN IF value = -1 THEN << Msg("s/v/range/mode", "auto") >>
         ELSE << Msg("s/v/range/mode", "manual"), Msg("s/v/range/select", value) >>
    ELSE IF parts = << "trigger_dir" >> THEN << Msg("c/trigger/dir", value) >>
    ELSE IF parts = << "gpio_voltage" >> THEN << Msg("c/gpio/vref", value) >>
    ELSE << >>

\* A command of the worker's queue: (cmd, args), args being (topic, value)
\* for 'settings' and None otherwise.
Cmd(cmd, parts, value) == [cmd |-> cmd, parts |-> parts, value |-> value]
SettingsCmd(parts, value) == Cmd("settings", parts, value)
CurrentRangeUpdateCmd == Cmd("current_range_update", << >>, 0)
CloseCmd == Cmd("close", << >>, 0)

\* Js220._run_cmd(cmd, args): the driver messages it publishes.
RunCmd(d, c) ==
    IF c.cmd = "settings" THEN RunCmdSettings(d, c.parts, c.value)
    ELSE IF c.cmd = "current_range_update" THEN CurrentRangeUpdate(d)
    ELSE << >>

\* The values of the 'current_range' setting the model follows: auto and 10 A.
CurrentRanges == { -1, 129 }

\* The 'settings' commands the model follows.
SettingsCmds ==
    { SettingsCmd(<< "out", c >>, v) : c \in GpoChannels, v \in {0, 1} }
    \cup { SettingsCmd(<< "signals", s, "enable" >>, v) : s \in {"i", "r"}, v \in {0, 1} }
    \cup { SettingsCmd(<< "target_power" >>, v) : v \in {0, 1} }
    \cup { SettingsCmd(<< "current_range" >>, v) : v \in CurrentRanges }
    \cup { SettingsCmd(<< "voltage_range" >>, v) : v \in {-1, 1} }
    \cup { SettingsCmd(<< "statistics_frequency" >>, 2),
           SettingsCmd(<< "signal_frequency" >>, 1000000),
           SettingsCmd(<< "trigger_dir" >>, 1),
           SettingsCmd(<< "gpio_voltage" >>, 1),
           SettingsCmd(<< "name" >>, 0),
           SettingsCmd(<< "state" >>, 2) }

\* The largest accumulator value and sample count of a statistics message.
MaxAccum == 2

\* A statistics message of the driver: the first and last entry of
\* time.accum_samples.value and the charge and energy accumulators.
Stats(first, last, charge, energy) ==
    [first |-> first, last |-> last, charge |-> charge, energy |-> energy]

StatsValues ==
    { Stats(0, last, charge, energy) :
        last \in 1..MaxAccum, charge \in 0..MaxAccum, energy \in 0..MaxAccum }

\* _on_stats that does not subtract the energy offset.
OnStatsKeepsEnergy(offsets, value) ==
    Bind(IF offsets = << >> THEN << value.last, value.charge, value.energy >> ELSE offsets,
         LAMBDA o : [offsets |-> o,
                     fwd |-> Stats(o[1], value.last, value.charge - o[2], value.energy)])

\* Js220._on_stats(topic, value): [offsets, fwd], the offsets it leaves and
\* the message it forwards; offsets is <<>> for None.
OnStats(offsets, value) ==
    Bind(IF offsets = << >> THEN << value.last, value.charge, value.energy >> ELSE offsets,
         LAMBDA o : [offsets |-> o,
                     fwd |-> Stats(o[1], value.last, value.charge - o[2],
                                   value.energy - o[3])])

\* Js220.on_action_accum_clear(topic, value): [offsets, ret]; value is <<>>
\* for None and ret is the second entry of the returned pair.
OnActionAccumClear(offsets, value) == [offsets |-> value, ret |-> offsets]

\* The values handed to on_action_accum_clear.
ClearValues == { << >>, << 1, 1, 1 >> }

otherThanDrv == <<status, run_mode_checked, connected, widgets, config, bus_status,
                  bus_mode, session_open, si, thr, wf, edge, cw, js, tp>>

\* drv: the attributes of a Js220 that its commands read, the driver
\* messages and the statistics message that the last operation published
\* or forwarded, the statistics offsets, and what an observer keeps: whether
\* the offsets were set to None since the last forwarded message, and the
\* first message the driver sent after they were.
InitDrv ==
    /\ NoTriggerWidget
    /\ si = Idle /\ thr = Idle /\ wf = Idle /\ edge = Idle /\ cw = Idle
    /\ js = Idle /\ tp = Idle
    /\ op = "init" /\ err = "none" /\ arg = Idle
    /\ drv = [target_power_app |-> FALSE, target_power |-> TRUE, current_range |-> -1,
              sent |-> << >>, offsets |-> << >>, fwd |-> None,
              cleared |-> TRUE, first |-> None]

\* The application's target_power setting is published: the part of
\* _on_target_power_app that writes the attribute.
DrvTargetPowerApp ==
    /\ \E v \in {0, 1} :
        /\ drv' = [drv EXCEPT !.target_power_app = Bool(v), !.sent = << >>, !.fwd = None]
        /\ arg' = [value |-> v]
    /\ op' = "target_power_app"
    /\ err' = "none"
    /\ UNCHANGED otherThanDrv

\* The device's target_power or current_range setting is published: the
\* attribute of the object follows the setting.
DrvSettingUpdate ==
    /\ \/ \E v \in BOOLEAN :
            /\ drv' = [drv EXCEPT !.target_power = v, !.sent = << >>, !.fwd = None]
            /\ arg' = [topic |-> "target_power"]
       \/ \E v \in CurrentRanges :
            /\ drv' = [drv EXCEPT !.current_range = v, !.sent = << >>, !.fwd = None]
            /\ arg' = [topic |-> "current_range"]
    /\ op' = "setting_update"
    /\ err' = "none"
    /\ UNCHANGED otherThanDrv

\* The worker runs a command: _run_cmd(cmd, args).
DrvRunCmd ==
    /\ \E c \in SettingsCmds \cup { CurrentRangeUpdateCmd } :
        /\ drv' = [drv EXCEPT !.sent = RunCmd(drv, c), !.fwd = None]
        /\ arg' = c
    /\ op' = "run_cmd"
    /\ err' = "none"
    /\ UNCHANGED otherThanDrv

\* The driver delivers a statistics message: _on_stats.
DrvOnStats ==
    /\ \E value \in StatsValues :
        \E r \in { OnStats(drv.offsets, value) } :
            /\ drv' = [drv EXCEPT !.offsets = r.offsets, !.fwd = Some(r.fwd), !.sent = << >>,
                                  !.cleared = FALSE,
                                  !.first = IF drv.cleared THEN Some(value) ELSE @]
            /\ arg' = value
    /\ op' = "on_stats"
    /\ err' = "none"
    /\ UNCHANGED otherThanDrv

\* on_action_accum_clear(topic, value)
DrvAccumClear ==
    /\ \E value \in ClearValues :
        \E r \in { OnActionAccumClear(drv.offsets, value) } :
            /\ drv' = [drv EXCEPT !.offsets = r.offsets, !.sent = << >>, !.fwd = None,
                                  !.cleared = (value = << >>), !.first = None]
            /\ arg' = [value |-> value, ret |-> r.ret]
    /\ op' = "accum_clear"
    /\ err' = "none"
    /\ UNCHANGED otherThanDrv

NextDrv ==
    \/ DrvTargetPowerApp
    \/ DrvSettingUpdate
    \/ DrvRunCmd
    \/ DrvOnStats
    \/ DrvAccumClear

SpecDrv == InitDrv /\ [][NextDrv]_vars

(***************************************************************************)
(* Claims about the commands of the Js220 worker and its statistics        *)
(***************************************************************************)

\* The last operation ran the settings command of an 'out/<c>' topic.
RanOutCmd ==
    /\ op = "run_cmd"
    /\ arg.cmd = "settings"
    /\ Len(arg.parts) = 2
    /\ arg.parts[1] = "out"

\* The number of the bit of a channel.
GpoBitNumber(c) == CASE c = "0" -> 0 [] c = "1" -> 1 [] c = "T" -> 7

\* C22: a settings command 'out/<c>', c in {0, 1, T}, makes the worker
\* publish exactly one driver message: to 's/gpo/+/!set' when the value is
\* true and to 's/gpo/+/!clr' when it is false, carrying the bit of channel
\* c alone (0 -> bit 0, 1 -> bit 1, T -> bit 7).
C22_GpoOneBit ==
    (RanOutCmd /\ arg.parts[2] \in {"0", "1", "T"}) =>
        /\ Len(drv.sent) = 1
        /\ drv.sent[1].topic = (IF arg.value # 0 THEN "s/gpo/+/!set" ELSE "s/gpo/+/!clr")
        /\ drv.sent[1].value = 2 ^ GpoBitNumber(arg.parts[2])

C22_Witness ==
    /\ RanOutCmd
    /\ arg.parts[2] = "T"
    /\ arg.value = 0
    /\ drv.sent = << Msg("s/gpo/+/!clr", 128) >>

\* The last operation ran _current_range_update on the worker.
RanCurrentRangeUpdate ==
    /\ op = "run_cmd"
    /\ \/ arg.cmd = "current_range_update"
       \/ arg.cmd = "settings" /\ arg.parts \in { << "target_power" >>, << "current_range" >> }

\* The application's target_power and the device's are both true.
BothTargetPower == drv.target_power_app /\ drv.target_power

\* C28: _current_range_update publishes current-range mode 'off' unless
\* both the application's target_power and the device's target_power
\* setting are true; when both are, it publishes mode 'auto' for
\* current_range -1 and otherwise the range select value and then mode
\* 'manual'.
C28_CurrentRangeMode ==
    RanCurrentRangeUpdate =>
        /\ ~BothTargetPower =>
            /\ Len(drv.sent) = 1
            /\ drv.sent[1].topic = "s/i/range/mode"
            /\ drv.sent[1].value = "off"
        /\ (BothTargetPower /\ drv.current_range = -1) =>
            /\ Len(drv.sent) = 1
            /\ drv.sent[1].topic = "s/i/range/mode"
            /\ drv.sent[1].value = "auto"
        /\ (BothTargetPower /\ drv.current_range # -1) =>
            /\ Len(drv.sent) = 2
            /\ drv.sent[1].topic = "s/i/range/select"
            /\ drv.sent[1].value = drv.current_range
            /\ drv.sent[2].topic = "s/i/range/mode"
            /\ drv.sent[2].value = "manual"

C28_Witness ==
    /\ RanCurrentRangeUpdate
    /\ arg.cmd = "current_range_update"
    /\ BothTargetPower
    /\ drv.current_range = 129
    /\ Len(drv.sent) = 2

\* C29: after the offsets are set to None, the first statistics message
\* that _on_stats forwards reports charge 0 and energy 0, and every later
\* one reports charge and energy minus those of that first message, until
\* the offsets are set again; on_action_accum_clear returns the offsets
\* that were in force before the call.
C29_AccumulatorsRestart ==
    [][/\ (op' = "on_stats" /\ drv.cleared) =>
            /\ drv'.fwd[1].charge = 0
            /\ drv'.fwd[1].energy = 0
       /\ (op' = "on_stats" /\ ~drv.cleared /\ drv.first # None) =>
            /\ drv'.fwd[1].charge = arg'.charge - drv.first[1].charge
            /\ drv'.fwd[1].energy = arg'.energy - drv.first[1].energy
       /\ op' = "accum_clear" => arg'.ret = drv.offsets]_vars

C29_Witness ==
    /\ op = "on_stats"
    /\ ~drv.cleared
    /\ drv.first # None
    /\ arg.energy > drv.first[1].energy
    /\ drv.fwd[1].energy = arg.energy - drv.first[1].energy
    /\ drv.fwd[1].energy > 0

(***************************************************************************)
(* devices/jsdrv/js220.py: the UI thread and the worker threads of a Js220 *)
(***************************************************************************)

\* The number of threads a Js220 starts, and the number of commands that
\* are sent to its threads, in a behaviour that is followed.
MaxSessions == 2
MaxCmds == 2

\* SETTINGS['state']['options']: the value of a state name.
STATE_VALUE(name) ==
    CASE name = "closed" -> 0 [] name = "opening" -> 1
      [] name = "open" -> 2 [] name = "closing" -> 3

\* _ui_publish('settings/state', name): the setting holds the value of the
\* option with that name as soon as the call returns.
UiPublishState(j, name) == [j EXCEPT !.state = STATE_VALUE(name)]

\* A thread has ended: _run has returned 0 (done) or 1 (failed).
Ended(w) == w.pc \in {"done", "failed"}

\* Thread.join() returns at once although the thread has not ended.
JoinedAtOnce(w) == TRUE

\* Thread.join() returns: the thread has ended.
Joined(w) == Ended(w)

\* _open_req that leaves the queue as it is.
DrainNothing(queue) == queue

\* _open_req: queue.get(block=False) until queue.Empty.
Drain(queue) == << >>

\* _run goes on although _open() has returned 1.
RunOpenFailedIgnored(w) == [w EXCEPT !.pc = "publish_open"]

\* _run: 'if self._open(): return 1'.
RunOpenFailed(w) == [w EXCEPT !.pc = "failed"]

\* _close_req after the join, without 'self._thread = None'.
CloseReqDoneKeepsThread(j) == UiPublishState(j, "closed")

\* _close_req after the join: the thread is cleared and 'closed' published.
CloseReqDone(j) == UiPublishState([j EXCEPT !.thread = 0], "closed")

\* An entry of the queue: the command and, for an observer, the number of
\* the command in the order of the calls of _send_to_thread (0 for 'close'),
\* the number of threads started when it was sent, and whether 'close' had
\* been sent to that thread before it.
Entry(c, n, s, after_close) == [c |-> c, n |-> n, s |-> s, after_close |-> after_close]

\* _send_to_thread(cmd, args)
SendToThread(j, c) ==
    [j EXCEPT !.queue = Append(@, Entry(c, IF c.cmd = "close" THEN 0 ELSE j.next_n,
                                        Len(j.workers), j.close_sent)),
              !.next_n = IF c.cmd = "close" THEN @ ELSE @ + 1,
              !.close_sent = @ \/ c.cmd = "close"]

\* A thread that has been started and has not yet run: it is about to call
\* _open; 'open_failed', 'opened' and 'ran' tell an observer whether its
\* _open has returned 1, whether it has published 'open' and whether it has
\* run a command.
NewWorker == [pc |-> "open", open_failed |-> FALSE, opened |-> FALSE, ran |-> FALSE]

\* _open_req once self._thread is None: the queue is emptied, 'opening' is
\* published, _quit is cleared and the thread is started.
OpenReqStart(j) ==
    UiPublishState([j EXCEPT !.queue = Drain(@),
                             !.quit = FALSE,
                             !.workers = Append(@, NewWorker),
                             !.thread = Len(j.workers) + 1,
                             !.close_sent = FALSE], "opening")

\* The commands that are sent to the thread in the behaviours followed.
JsSettingsCmds == { SettingsCmd(<< "out", "0" >>, 1) }

\* The argument of a step that runs no command.
NoEntry == [entry |-> None, by |-> 0]

otherThanJs == <<status, run_mode_checked, connected, widgets, config, bus_status,
                 bus_mode, session_open, si, thr, wf, edge, cw, drv, tp>>

\* js: the attributes of a Js220 (_thread, 0 for None, else the number of
\* the thread; _quit; _queue; _target_power_app), the 'state' setting, the
\* threads it has started, whether _on_settings is subscribed, the position
\* of the UI thread in _open_req and _close_req, the driver messages of the
\* last step, and what an observer counts.
InitJs ==
    /\ NoTriggerWidget
    /\ si = Idle /\ thr = Idle /\ wf = Idle /\ edge = Idle /\ cw = Idle
    /\ drv = Idle /\ tp = Idle
    /\ op = "init" /\ err = "none" /\ arg = NoEntry
    /\ js = [thread |-> 0, quit |-> FALSE, queue |-> << >>, state |-> 0,
             target_power_app |-> FALSE, target_power |-> TRUE, current_range |-> -1,
             workers |-> << >>, subscribed |-> FALSE,
             ui |-> [pc |-> "idle", from_open |-> FALSE],
             sent |-> << >>, next_n |-> 1, last_n |-> 0, close_sent |-> FALSE]

\* The UI thread is in no call of the Js220.
UiIdle == js.ui.pc = "idle"

Step(name, a) == op' = name /\ err' = "none" /\ arg' = a /\ UNCHANGED otherThanJs

\* on_setting_state_req(1) -> _open_req, up to its return or to the first
\* statement of the _close_req it calls.
JsOpenReq ==
    /\ UiIdle
    /\ IF js.thread # 0 /\ js.state = 3
       THEN /\ Len(js.workers) < MaxSessions
            /\ js' = UiPublishState([js EXCEPT !.ui = [pc |-> "close_put", from_open |-> TRUE],
                                               !.sent = << >>], "closing")
       ELSE IF js.thread = 0
       THEN /\ Len(js.workers) < MaxSessions
            /\ js' = OpenReqStart([js EXCEPT !.sent = << >>])
       ELSE js' = [js EXCEPT !.sent = << >>]
    /\ Step("open_req", NoEntry)

\* on_setting_state_req(0) or on_action_finalize -> _close_req, up to its
\* return or to its first statement after publishing 'closing'.
JsCloseReq ==
    /\ UiIdle
    /\ IF js.thread # 0
       THEN js' = UiPublishState([js EXCEPT !.ui = [pc |-> "close_put", from_open |-> FALSE],
                                            !.sent = << >>], "closing")
       ELSE js' = js
    /\ Step("close_req", NoEntry)

\* _close_req: self._send_to_thread('close')
UiClosePut ==
    /\ js.ui.pc = "close_put"
    /\ js' = SendToThread([js EXCEPT !.ui.pc = "close_quit", !.sent = << >>], CloseCmd)
    /\ Step("close_put", NoEntry)

\* _close_req: self._quit = True
UiCloseQuit ==
    /\ js.ui.pc = "close_quit"
    /\ js' = [js EXCEPT !.quit = TRUE, !.ui.pc = "close_join", !.sent = << >>]
    /\ Step("close_quit", NoEntry)

\* _close_req: self._thread.join(), self._thread = None, 'closed'.
UiCloseJoin ==
    /\ js.ui.pc = "close_join"
    /\ Joined(js.workers[js.thread])
    /\ js' = CloseReqDone([js EXCEPT
                !.ui.pc = IF js.ui.from_open THEN "open_start" ELSE "idle",
                !.sent = << >>])
    /\ Step("close_join", NoEntry)

\* _open_req after the _close_req it called: 'if self._thread is None'.
UiOpenStart ==
    /\ js.ui.pc = "open_start"
    /\ IF js.thread = 0
       THEN js' = OpenReqStart([js EXCEPT !.ui.pc = "idle", !.sent = << >>])
       ELSE js' = [js EXCEPT !.ui.pc = "idle", !.sent = << >>]
    /\ Step("open_start", NoEntry)

\* _on_settings(topic, value), called on the UI thread for a setting of
\* the device while the subscription of _open is in place.
JsOnSettings ==
    /\ UiIdle
    /\ js.subscribed
    /\ js.next_n <= MaxCmds
    /\ \E c \in JsSettingsCmds :
        js' = IF js.thread = 0 THEN [js EXCEPT !.sent = << >>]
              ELSE SendToThread([js EXCEPT !.sent = << >>], c)
    /\ Step("on_settings", NoEntry)

\* _on_target_power_app(value)
JsOnTargetPowerApp ==
    /\ UiIdle
    /\ js.next_n <= MaxCmds
    /\ \E v \in {0, 1} :
        js' = SendToThread([js EXCEPT !.target_power_app = Bool(v), !.sent = << >>],
                           CurrentRangeUpdateCmd)
    /\ Step("target_power_app", NoEntry)

\* Thread i is at pc.
At(i, pc) == i \in 1..Len(js.workers) /\ js.workers[i].pc = pc

\* _open: self._driver.open(path, 'restore') returns or raises; when it
\* raises, 'closing' is published and _open returns 1.
WorkerOpen(i) ==
    /\ At(i, "open")
    /\ \/ js' = [js EXCEPT !.workers[i].pc = "config", !.sent = << >>]
       \/ js' = UiPublishState([js EXCEPT
                    !.workers[i] = RunOpenFailed([@ EXCEPT !.open_failed = TRUE]),
                    !.sent = << >>], "closing")
    /\ Step("worker_open", NoEntry)

\* _open: the configuration after the driver has opened the device, its
\* last call being the subscription of _on_settings with 'retain', which
\* delivers the retained settings to _on_settings; when a call raises,
\* 'closing' is published and _open returns 1.
WorkerConfig(i) ==
    /\ At(i, "config")
    /\ \/ \E c \in JsSettingsCmds :
            \E j \in { [js EXCEPT !.workers[i].pc = "publish_open", !.subscribed = TRUE,
                                  !.sent = << Msg("s/stats/ctrl", 1) >>] } :
                js' = IF j.thread = 0 \/ j.next_n > MaxCmds THEN j ELSE SendToThread(j, c)
       \/ js' = UiPublishState([js EXCEPT
                    !.workers[i] = RunOpenFailed([@ EXCEPT !.open_failed = TRUE]),
                    !.sent = << >>], "closing")
    /\ Step("worker_config", NoEntry)

\* _run: self._ui_publish('settings/state', 'open')
WorkerPublishOpen(i) ==
    /\ At(i, "publish_open")
    /\ js' = UiPublishState([js EXCEPT !.workers[i].pc = "loop",
                                       !.workers[i].opened = TRUE,
                                       !.sent = << >>], "open")
    /\ Step("worker_publish_open", NoEntry)

\* _run: 'while not self._quit'
WorkerLoop(i) ==
    /\ At(i, "loop")
    /\ js' = [js EXCEPT !.workers[i].pc = IF js.quit THEN "close" ELSE "get",
                        !.sent = << >>]
    /\ Step("worker_loop", NoEntry)

\* _run: self._queue.get(timeout=0.1); queue.Empty continues the loop,
\* 'close' leaves it, any other command is run by _run_cmd.
WorkerGet(i) ==
    /\ At(i, "get")
    /\ IF js.queue = << >>
       THEN /\ js' = [js EXCEPT !.workers[i].pc = "loop", !.sent = << >>]
            /\ Step("worker_get", NoEntry)
       ELSE IF Head(js.queue).c.cmd = "close"
       THEN /\ js' = [js EXCEPT !.queue = Tail(@), !.workers[i].pc = "close",
                                !.sent = << >>]
            /\ Step("worker_get", NoEntry)
       ELSE /\ js' = [js EXCEPT !.queue = Tail(@), !.workers[i].pc = "loop",
                                !.workers[i].ran = TRUE,
                                !.sent = RunCmd(js, Head(js.queue).c),
                                !.last_n = Head(js.queue).n]
            /\ Step("run_cmd", [entry |-> Some(Head(js.queue)), by |-> i])

\* _run: self._close()
WorkerClose(i) ==
    /\ At(i, "close")
    /\ IF js.state = 0
       THEN js' = [js EXCEPT !.workers[i].pc = "done", !.sent = << >>]
       ELSE js' = UiPublishState([js EXCEPT !.workers[i].pc = "done",
                                            !.subscribed = FALSE,
                                            !.sent = << Msg("s/stats/ctrl", 0) >>], "closing")
    /\ Step("worker_close", NoEntry)

\* A step of a thread.
Worker ==
    \E i \in 1..MaxSessions :
        \/ WorkerOpen(i)
        \/ WorkerConfig(i)
        \/ WorkerPublishOpen(i)
        \/ WorkerLoop(i)
        \/ WorkerGet(i)
        \/ WorkerClose(i)

\* A step of the UI thread inside _close_req or _open_req.
UiContinue ==
    \/ UiClosePut
    \/ UiCloseQuit
    \/ UiCloseJoin
    \/ UiOpenStart

NextJs ==
    \/ JsOpenReq
    \/ JsCloseReq
    \/ UiClosePut
    \/ UiCloseQuit
    \/ UiCloseJoin
    \/ UiOpenStart
    \/ JsOnSettings
    \/ JsOnTargetPowerApp
    \/ \E i \in 1..MaxSessions : WorkerOpen(i)
    \/ \E i \in 1..MaxSessions : WorkerConfig(i)
    \/ \E i \in 1..MaxSessions : WorkerPublishOpen(i)
    \/ \E i \in 1..MaxSessions : WorkerLoop(i)
    \/ \E i \in 1..MaxSessions : WorkerGet(i)
    \/ \E i \in 1..MaxSessions : WorkerClose(i)

SpecJs == InitJs /\ [][NextJs]_vars

\* The threads get to run and the UI thread goes on inside a call.
SpecJsFair == SpecJs /\ WF_vars(Worker) /\ WF_vars(UiContinue)

(***************************************************************************)
(* Claims about the threads of a Js220                                     *)
(***************************************************************************)

\* closed -> opening, opening -> open, opening -> closing, open -> closing
\* and closing -> closed, as values of the 'state' setting.
StateChanges == { << 0, 1 >>, << 1, 2 >>, << 1, 3 >>, << 2, 3 >>, << 3, 0 >> }

\* C23: for every interleaving of open requests, close requests and the
\* worker thread, the published device state changes only along closed ->
\* opening, opening -> open, opening -> closing, open -> closing and
\* closing -> closed; 'open' is never published after 'closing' in the same
\* session.
C23_StateChanges ==
    [][js'.state # js.state => << js.state, js'.state >> \in StateChanges]_vars


\* A thread has been started by the step.
Started == Len(js'.workers) > Len(js.workers)

\* C24: the worker runs the commands of its queue one at a time in the
\* order they were sent; a command sent after 'close' is never run by that
\* session; the commands left in the queue are discarded by _open_req
\* before the next worker starts, so that no command of an earlier session
\* is run by a later one.
C24_CommandsInOrder ==
    [][/\ op' = "run_cmd" =>
            /\ arg'.entry = Some(Head(js.queue))
            /\ arg'.entry[1].n > js.last_n
            /\ ~arg'.entry[1].after_close
            /\ arg'.entry[1].s = arg'.by
       /\ Started => js'.queue = << >>]_vars

C24_Witness ==
    /\ op = "run_cmd"
    /\ arg.by = 2
    /\ arg.entry[1].n = 2

\* The recorded thread has not ended.
ThreadRunning == js.thread # 0 /\ ~Ended(js.workers[js.thread])

\* _close_req has returned: no thread is recorded, no thread runs and
\* 'closed' is the state published last.
CloseReqReturned ==
    /\ js.ui.pc \in {"idle", "open_start"}
    /\ js.thread = 0
    /\ js.state = 0
    /\ \A i \in 1..Len(js.workers) : Ended(js.workers[i])

\* C25: after _close_req is called while a worker thread is running, the
\* worker leaves its loop and ends, and _close_req returns with no thread
\* recorded and 'closed' published last (the threads get to run, the calls
\* of the driver return); _close_req with no thread recorded publishes
\* nothing and changes nothing.
C25_CloseTerminates ==
    /\ [][(op' = "close_req" /\ js.thread = 0) => js' = js]_vars
    /\ (js.ui.pc = "close_put" /\ ThreadRunning) ~> CloseReqReturned

C25_Witness ==
    /\ op = "close_join"
    /\ CloseReqReturned
    /\ Len(js.workers) = 1
    /\ js.workers[1].pc = "done"
    /\ js.workers[1].opened

\* The threads that have not ended.
Running == { i \in 1..Len(js.workers) : ~Ended(js.workers[i]) }

\* C26: at most one worker thread exists at any time, the recorded one:
\* _open_req starts a thread only when none is recorded and _close_req
\* joins the recorded thread before it clears it.
C26_OneWorker ==
    /\ Cardinality(Running) <= 1
    /\ \A i \in Running : js.thread = i

C26_Witness ==
    /\ Len(js.workers) = 2
    /\ js.workers[1].pc = "done"
    /\ Running = { 2 }
    /\ js.thread = 2

\* C27: if the driver open or the configuration after it fails, the worker
\* publishes 'closing' and ends without ever publishing 'open' and without
\* running a command; a later open request first completes the close (the
\* dead thread is joined, 'closed' is published) and only then starts a
\* new worker.
C27_OpenFailure ==
    [][/\ \A i \in 1..Len(js.workers) :
            /\ js'.workers[i].open_failed =>
                /\ Ended(js'.workers[i])
                /\ ~js'.workers[i].opened
                /\ ~js'.workers[i].ran
            /\ (js'.workers[i].open_failed /\ ~js.workers[i].open_failed) =>
                js'.state = 3
       /\ Started =>
            /\ js.thread = 0
            /\ js.state = 0
            /\ Running = {}]_vars

C27_Witness ==
    /\ op = "open_start"
    /\ Len(js.workers) = 2
    /\ js.workers[1].open_failed
    /\ js.thread = 2
    /\ js.state = 1

(***************************************************************************)
(* widgets/waveform/waveform_source_widget.py: the priorities of the       *)
(* traces                                                                  *)
(***************************************************************************)

\* The traces of a WaveformSourceWidget, by _index + 1.
Traces == 1..4

\* How far below 0 a priority is followed; an enable that would lower a
\* priority further is not followed.
MaxLower == 2

\* _Trace._on_enable(enabled) that only writes the entry of its trace.
OnEnableOwnOnly(value, index, enabled) ==
    [value EXCEPT ![index] = IF enabled THEN Some(0) ELSE None]

\* _Trace._on_enable(enabled): the list it publishes to 'trace_priority',
\* value being the list it queried; an entry is None or Some(priority).
OnEnable(value, index, enabled) ==
    IF enabled
    THEN [i \in Traces |->
            IF i = index THEN Some(0)
            ELSE IF value[i] = None THEN None ELSE Some(value[i][1] - 1)]
    ELSE [value EXCEPT ![index] = None]

\* WaveformSourceWidget._on_trace_priority -> _Trace.on_trace_priority:
\* each trace stores its entry; a trace with priority 0 checks its button.
OnTracePriority(t, value) ==
    [t EXCEPT !.value = value,
              !.priority = value,
              !.checked = [i \in Traces |-> IF value[i] = Some(0) THEN TRUE ELSE t.checked[i]]]

\* The values of 'trace_priority' when the widget registers: no trace, or
\* the first trace alone.
InitialPriorities ==
    { [i \in Traces |-> None], [i \in Traces |-> IF i = 1 THEN Some(0) ELSE None] }

otherThanTp == <<status, run_mode_checked, connected, widgets, config, bus_status,
                 bus_mode, session_open, si, thr, wf, edge, cw, js, drv>>

\* tp: the 'trace_priority' setting, the _priority of each trace and the
\* checked state of each trace button, after on_pubsub_register.
InitTp ==
    /\ NoTriggerWidget
    /\ si = Idle /\ thr = Idle /\ wf = Idle /\ edge = Idle /\ cw = Idle
    /\ js = Idle /\ drv = Idle
    /\ op = "init" /\ err = "none" /\ arg = Idle
    /\ \E value \in InitialPriorities :
        tp = OnTracePriority([value |-> value, priority |-> [i \in Traces |-> None],
                              checked |-> [i \in Traces |-> FALSE]], value)

\* No entry would go below -MaxLower when lowered.
CanLower ==
    \A i \in Traces : IF tp.value[i] = None THEN TRUE ELSE tp.value[i][1] > -MaxLower

\* _on_enable(enabled) of trace `index` and the delivery of the list it
\* publishes, the buttons being in the state `checked`.
Enable(index, enabled, checked) ==
    OnTracePriority([tp EXCEPT !.checked = checked], OnEnable(tp.value, index, enabled))

\* The button of a trace is clicked: _on_clicked(checked), checked being
\* the toggled state of the button.
TpClicked ==
    /\ \E index \in Traces :
        /\ tp.checked[index] \/ CanLower
        /\ tp' = Enable(index, ~tp.checked[index], [tp.checked EXCEPT ![index] = ~@])
        /\ op' = IF tp.checked[index] THEN "disable" ELSE "enable"
        /\ arg' = [index |-> index, before |-> tp.value]
    /\ err' = "none"
    /\ UNCHANGED otherThanTp

\* The name of a trace is pressed with the left button:
\* _on_name_mousePressEvent -> _on_enable(True).
TpNamePressed ==
    /\ CanLower
    /\ \E index \in Traces :
        /\ tp' = Enable(index, TRUE, tp.checked)
        /\ arg' = [index |-> index, before |-> tp.value]
    /\ op' = "enable"
    /\ err' = "none"
    /\ UNCHANGED otherThanTp

NextTp ==
    \/ TpClicked
    \/ TpNamePressed

SpecTp == InitTp /\ [][NextTp]_vars

(***************************************************************************)
(* Claims about the priorities of the traces                               *)
(***************************************************************************)

\* The traces whose priority is 0.
Active == { i \in Traces : tp.value[i] = Some(0) }

====
